---- MODULE Spec2Model ----
(***************************************************************************)
(* Model of dashboard_app.py: the chunked persistence of the three record  *)
(* tables in the document store (save_data_for_admin and                   *)
(* load_data_from_admin) and the Streamlit script that calls them from     *)
(* each browser session.                                                   *)
(*                                                                         *)
(* A script run is a sequence of single document operations on the store.  *)
(* Step performs one of them; RunToEnd performs a whole script run.  Spec  *)
(* takes whole script runs as its actions, SpecConc interleaves the        *)
(* document operations of two sessions.                                    *)
(*                                                                         *)
(* enrich_dataframe_with_sku_info, which load_data applies to every        *)
(* uploaded table, is modelled as a function of a table and a decoder;     *)
(* SpecEnrich calls it on each of a set of tables and decoders.            *)
(* SpecEnrichCarried calls it on tables that already carry enrichment      *)
(* columns.  clean_financial_string and load_sku_master are modelled       *)
(* character by character; SpecClean calls the first on each of a set of   *)
(* arguments, SpecMaster runs the master uploader on each of a set of      *)
(* sheets.  SpecAdmins interleaves the saves of two admin sessions.        *)
(***************************************************************************)
EXTENDS Integers, Sequences, FiniteSets, TLC

VARIABLES
    db,         \* the module-level Firestore client: "client", or "None"
    store,      \* the documents under admin_data/admin
    sess,       \* per browser session: st.session_state, uploader widgets,
                \* and the position and locals of the running script
    last_save,  \* the most recent save_data_for_admin call and its outcome
    failures,   \* store failures that have happened so far
    enrich,     \* a call of enrich_dataframe_with_sku_info: its arguments and
                \* what it returned
    clean,      \* a call of clean_financial_string: its argument and what it
                \* returned
    master      \* an upload of a SKU master file: the sheet, the decoder the
                \* session held, what load_sku_master returned and the
                \* decoder the session holds afterwards

vars == <<db, store, sess, last_save, failures, enrich, clean, master>>

(***************************************************************************)
(* Bounds.  MAX_ROWS_PER_CHUNK is 500 in the source; every definition      *)
(* below is parametric in it and the model runs it scaled down, with the   *)
(* table sizes chosen relative to it (one row, exactly one chunk, one row  *)
(* more than a chunk, one row more than ten chunks).                       *)
(***************************************************************************)
MAX_ROWS_PER_CHUNK == 2
MaxFailures == 1
MaxTime == 2
MaxTextLen == 4
MaxMasterRows == 3

Sessions == {1, 2}

ADMIN_USER_ID == "admin"
READER_USER_ID == "user"
NoUser == "None"

\* loaded_dataframes.keys() / current_dataframes in dict order
Keys == <<"df_sales_combined", "df_inbound_combined", "df_stock_combined">>
NumKeys == Len(Keys)
KeyIx == 1..NumKeys

(***************************************************************************)
(* Cell values.  A cell is a text, a timestamp or the missing timestamp    *)
(* NaT.  A text is the sequence of its characters, a character being a     *)
(* small number: the digits 0..9 stand for themselves.                     *)
(***************************************************************************)
Ch == [dash |-> 10, T |-> 11, colon |-> 12, N |-> 13, a |-> 14, A |-> 15, B |-> 16]

Str(chars) == [t |-> "str", v |-> chars]
Dt(y, mo, d, h, mi, s) == [t |-> "datetime", v |-> <<y, mo, d, h, mi, s>>]
NaT == [t |-> "NaT", v |-> <<>>]

\* isinstance(x, datetime): true of pd.Timestamp and of pd.NaT
IsDatetimeInstance(x) == x.t \in {"datetime", "NaT"}

Pad2(n) == <<(n \div 10) % 10, n % 10>>
Pad4(n) == <<(n \div 1000) % 10, (n \div 100) % 10, (n \div 10) % 10, n % 10>>

\* x.isoformat(): YYYY-MM-DDTHH:MM:SS, and "NaT" for the missing timestamp
isoformat(x) ==
    IF x.t = "NaT" THEN Str(<<Ch.N, Ch.a, Ch.T>>)
    ELSE Str(Pad4(x.v[1]) \o <<Ch.dash>> \o Pad2(x.v[2]) \o <<Ch.dash>> \o Pad2(x.v[3])
             \o <<Ch.T>> \o Pad2(x.v[4]) \o <<Ch.colon>> \o Pad2(x.v[5])
             \o <<Ch.colon>> \o Pad2(x.v[6]))

IsDigit(c) == c \in 0..9
Num2(s, i) == 10 * s[i] + s[i + 1]
Num4(s, i) == 1000 * s[i] + 100 * s[i + 1] + 10 * s[i + 2] + s[i + 3]

IsIsoText(s) ==
    /\ Len(s) = 19
    /\ s[5] = Ch.dash /\ s[8] = Ch.dash /\ s[11] = Ch.T
    /\ s[14] = Ch.colon /\ s[17] = Ch.colon
    /\ \A i \in {1, 2, 3, 4, 6, 7, 9, 10, 12, 13, 15, 16, 18, 19} : IsDigit(s[i])
    /\ Num2(s, 6) \in 1..12 /\ Num2(s, 9) \in 1..31
    /\ Num2(s, 12) \in 0..23 /\ Num2(s, 15) \in 0..59 /\ Num2(s, 18) \in 0..59

\* pd.to_datetime(..., errors='coerce') on one cell
to_datetime(x) ==
    IF IsDatetimeInstance(x) THEN x
    ELSE IF IsIsoText(x.v)
         THEN Dt(Num4(x.v, 1), Num2(x.v, 6), Num2(x.v, 9),
                 Num2(x.v, 12), Num2(x.v, 15), Num2(x.v, 18))
         ELSE NaT

(***************************************************************************)
(* Tables.  A table (DataFrame) is a sequence of rows, a row a function    *)
(* from column names to cells; the empty DataFrame is the empty sequence.  *)
(***************************************************************************)
EmptyDF == <<>>
df_empty(df) == Len(df) = 0

Columns(df) == UNION {DOMAIN df[i] : i \in 1..Len(df)}

\* decimal text of a row position, as str(i) gives it
RECURSIVE DecimalDigits(_)
DecimalDigits(n) == IF n < 10 THEN <<n>> ELSE DecimalDigits(n \div 10) \o <<n % 10>>

\* the rows of an uploaded file after load_data: n rows marked with the file's
\* tag; sales and inbound rows carry a Tanggal, sales rows a No Transaksi
Stamp(i) ==
    IF i % 3 = 0 THEN NaT
    ELSE Dt(2024, 1 + ((5 * i) % 12), 1 + ((7 * i) % 28), i % 24, (13 * i) % 60, 0)

FileRow(key, tag, i) ==
    LET sku == "SKU" :> Str(<<tag>> \o DecimalDigits(i))
        tgl == "Tanggal" :> Stamp(i)
        trx == "No Transaksi" :> Str(DecimalDigits(i))
    IN  IF key = "df_sales_combined" THEN sku @@ tgl @@ trx
        ELSE IF key = "df_inbound_combined" THEN sku @@ tgl
        ELSE sku

FileTable(key, file) == [i \in 1..file.n |-> FileRow(key, file.tag, i)]

NoFile == [tag |-> 0, n |-> 0]

\* What the admin can put into the three table uploaders: a table of more
\* than two chunks, one of exactly one chunk and one of one row more than a
\* chunk together; a one-row sales table alone; a sales table of more than
\* ten chunks alone.
FullFiles ==
    <<[tag |-> Ch.A, n |-> 2 * MAX_ROWS_PER_CHUNK + 1],
      [tag |-> Ch.A, n |-> MAX_ROWS_PER_CHUNK],
      [tag |-> Ch.A, n |-> MAX_ROWS_PER_CHUNK + 1]>>
SalesOnlyFiles == <<[tag |-> Ch.B, n |-> 1], NoFile, NoFile>>
SecondSalesFiles == <<[tag |-> Ch.B, n |-> MAX_ROWS_PER_CHUNK + 1], NoFile, NoFile>>
LongSalesFiles == <<[tag |-> Ch.A, n |-> 10 * MAX_ROWS_PER_CHUNK + 1], NoFile, NoFile>>

(***************************************************************************)
(* The SKU decoder is a mapping from bucket to (code -> meaning); the      *)
(* empty dict {} is the empty mapping.                                     *)
(***************************************************************************)
EmptyDecoder == <<>>
GoodDecoder == [b \in {"CATEGORY", "SUB_CATEGORY", "SEASON", "WARNA", "UKURAN",
                       "TAHUN PRODUKSI", "SINGKATAN_NAMA_PRODUK", "DEFFECT"} |->
                    IF b = "UKURAN" THEN ("35" :> "L") ELSE <<>>]

(***************************************************************************)
(* save_data_for_admin: serialisation and chunking of one table            *)
(***************************************************************************)
Min(a, b) == IF a < b THEN a ELSE b

\* df.map(lambda x: x.isoformat() if isinstance(x, datetime) else x).to_dict('records')
records_to_save(df) ==
    [i \in 1..Len(df) |->
        [c \in DOMAIN df[i] |->
            IF IsDatetimeInstance(df[i][c]) THEN isoformat(df[i][c]) ELSE df[i][c]]]

\* the number of chunks rounded down
num_chunks_floor(num_records) == num_records \div MAX_ROWS_PER_CHUNK

num_chunks_of(num_records) ==
    (num_records + MAX_ROWS_PER_CHUNK - 1) \div MAX_ROWS_PER_CHUNK

\* the slice taken one row short
chunk_data_short(records, i) ==
    SubSeq(records, i * MAX_ROWS_PER_CHUNK + 1,
           Min((i + 1) * MAX_ROWS_PER_CHUNK, Len(records)) - 1)

\* records_to_save[start_idx:end_idx] of chunk i (0-based)
chunk_data(records, i) ==
    SubSeq(records, i * MAX_ROWS_PER_CHUNK + 1,
           Min((i + 1) * MAX_ROWS_PER_CHUNK, Len(records)))

Manifest(df) ==
    [exists |-> TRUE, chunked |-> TRUE,
     num_chunks |-> num_chunks_of(Len(df)), num_records |-> Len(df)]

NoDoc == [exists |-> FALSE]

(***************************************************************************)
(* The store.  chunks[k] maps the number i of each stored document         *)
(* chunk_<i> of table k to the document.  A query without order_by streams *)
(* the documents in ascending order of their document ids, which are       *)
(* compared as text.                                                       *)
(***************************************************************************)
EmptyStore ==
    [main        |-> [k \in KeyIx |-> NoDoc],
     chunks      |-> [k \in KeyIx |-> <<>>],
     sku_decoder |-> NoDoc,
     last_update |-> NoDoc]

\* text order of the digit strings a and b
LexLess(a, b) ==
    \E p \in 1..(Len(b)) :
        /\ p - 1 <= Len(a)
        /\ \A q \in 1..(p - 1) : a[q] = b[q]
        /\ (p > Len(a) \/ a[p] < b[p])

\* "chunk_<i>" < "chunk_<j>"
DocIdLess(i, j) == LexLess(DecimalDigits(i), DecimalDigits(j))

NoDocId == 0 - 1

\* the next document of a stream over the documents ids that has delivered
\* the document cursor last (NoDocId: none yet); NoDocId when it is exhausted
StreamNext(ids, cursor) ==
    LET rest == {i \in ids : cursor = NoDocId \/ DocIdLess(cursor, i)}
    IN  IF rest = {} THEN NoDocId
        ELSE CHOOSE i \in rest : \A j \in rest \ {i} : DocIdLess(i, j)

Remove(f, i) == [j \in (DOMAIN f) \ {i} |-> f[j]]
Put(f, i, doc) == [j \in (DOMAIN f) \cup {i} |-> IF j = i THEN doc ELSE f[j]]

(***************************************************************************)
(* load_data_from_admin: building the DataFrame of one table               *)
(***************************************************************************)
\* df['Tanggal'] = pd.to_datetime(df['Tanggal'], errors='coerce')
ParseTanggal(df) ==
    IF "Tanggal" \in Columns(df)
    THEN [i \in 1..Len(df) |->
            [c \in (DOMAIN df[i]) \cup {"Tanggal"} |->
                IF c = "Tanggal"
                THEN (IF c \in DOMAIN df[i] THEN to_datetime(df[i][c]) ELSE NaT)
                ELSE df[i][c]]]
    ELSE df

\* df['No Transaksi'] = df.index.astype(str) when the sales table lacks it
AddNoTransaksi(key, df) ==
    IF key = "df_sales_combined" /\ "No Transaksi" \notin Columns(df)
    THEN [i \in 1..Len(df) |-> df[i] @@ ("No Transaksi" :> Str(DecimalDigits(i - 1)))]
    ELSE df

DataFrameFromRecords(key, all_records) == AddNoTransaksi(key, ParseTanggal(all_records))

MarkerOf(st) == IF st.last_update.exists THEN st.last_update.timestamp ELSE 0
\* firestore.SERVER_TIMESTAMP: later than every timestamp written before
ServerTime(st) == MarkerOf(st) + 1

(***************************************************************************)
(* enrich_dataframe_with_sku_info.  A SKU is the sequence of its           *)
(* characters, a character being a one-character string; every other text  *)
(* (a decoder meaning, a default) is a string.  The operations on a column *)
(* are element-wise, so the main branch is written row by row.             *)
(***************************************************************************)
Text(s) == [t |-> "text", v |-> s]
Bool(b) == [t |-> "bool", v |-> b]
NaN == [t |-> "NaN", v |-> <<>>]

isna(x) == x.t \in {"NaN", "NaT"}
fillna(x, value) == IF isna(x) THEN value ELSE x

UpperLetters == <<"A", "B", "C", "D", "E", "F", "G", "H", "I", "J", "K", "L", "M",
                  "N", "O", "P", "Q", "R", "S", "T", "U", "V", "W", "X", "Y", "Z">>
LowerLetters == <<"a", "b", "c", "d", "e", "f", "g", "h", "i", "j", "k", "l", "m",
                  "n", "o", "p", "q", "r", "s", "t", "u", "v", "w", "x", "y", "z">>
DigitChars == <<"0", "1", "2", "3", "4", "5", "6", "7", "8", "9">>

IsUpperLetter(ch) == \E i \in DOMAIN UpperLetters : UpperLetters[i] = ch
IsDigitChar(ch) == \E i \in DOMAIN DigitChars : DigitChars[i] = ch

upper_char(ch) ==
    IF \E i \in DOMAIN LowerLetters : LowerLetters[i] = ch
    THEN UpperLetters[CHOOSE i \in DOMAIN LowerLetters : LowerLetters[i] = ch]
    ELSE ch
\* str.upper()
upper(chars) == [i \in 1..Len(chars) |-> upper_char(chars[i])]

\* astype(str): a missing value becomes the text nan
astype_str(x) == IF isna(x) THEN <<"n", "a", "n">> ELSE x.v

\* the text of a sequence of characters, as a key of a decoder bucket
RECURSIVE Join(_)
Join(chars) == IF chars = <<>> THEN "" ELSE chars[1] \o Join(Tail(chars))

\* s[-n:] and s[:n]
LastChars(chars, n) == SubSeq(chars, Len(chars) - Min(n, Len(chars)) + 1, Len(chars))
FirstChars(chars, n) == SubSeq(chars, 1, Min(n, Len(chars)))

\* sku_decoder.get(bucket, {})
get(sku_decoder, bucket) ==
    IF bucket \in DOMAIN sku_decoder THEN sku_decoder[bucket] ELSE <<>>

\* Series.map(bucket) of one element: the meaning, or NaN for a code the
\* bucket does not have
map(code, bucket) ==
    IF Join(code) \in DOMAIN bucket THEN Text(bucket[Join(code)]) ELSE NaN

(***************************************************************************)
(* str.extract(regex_pattern_full).  The pattern is anchored at the end of *)
(* the text and its groups have fixed widths except the product name, a    *)
(* run of letters between a separator and the last dash: the groups are    *)
(* read from the end of the text.  A text that does not match gives NaN in *)
(* every group, which fillna('') turns into the empty text.                *)
(***************************************************************************)
NoParts == [year |-> <<>>, season |-> <<>>, name |-> <<>>, color |-> <<>>, size |-> <<>>]

AllLetters(chars) == \A i \in 1..Len(chars) : IsUpperLetter(chars[i])

IsYearOrDeffectCode(code) ==
    /\ Len(code) = 2
    /\ \/ IsDigitChar(code[1]) /\ IsDigitChar(code[2])
       \/ code[1] = "D" /\ IsDigitChar(code[2])

\* the length of the longest run of letters that ends at position e
LetterRun(chars, e) ==
    CHOOSE m \in 0..e :
        /\ \A i \in (e - m + 1)..e : IsUpperLetter(chars[i])
        /\ m = e \/ ~IsUpperLetter(chars[e - m])

extract(chars) ==
    LET n == Len(chars)
        e == n - 6
        m == LetterRun(chars, e)
        sep == e - m
    IN  IF /\ n >= 13
           /\ IsDigitChar(chars[n - 1]) /\ IsDigitChar(chars[n])
           /\ AllLetters(SubSeq(chars, n - 4, n - 2))
           /\ chars[n - 5] = "-"
           /\ m >= 1
           /\ sep >= 6
           /\ chars[sep] \in {" ", "-"}
           /\ AllLetters(SubSeq(chars, sep - 3, sep - 1))
           /\ IsYearOrDeffectCode(SubSeq(chars, sep - 5, sep - 4))
        THEN [year |-> SubSeq(chars, sep - 5, sep - 4),
              season |-> SubSeq(chars, sep - 3, sep - 1),
              name |-> SubSeq(chars, sep + 1, e),
              color |-> SubSeq(chars, n - 4, n - 2),
              size |-> SubSeq(chars, n - 1, n)]
        ELSE NoParts

\* true of every code that is not empty
startswith_any(chars) == chars # <<>>

\* str.startswith('D')
startswith_D(chars) == Len(chars) >= 1 /\ chars[1] = "D"

default_sku_info_cols ==
    {"Category", "Sub Category", "Tahun Produksi", "Season",
     "Singkatan Nama Produk", "Warna Produk", "Size Produk", "Is Deffect"}

\* "Unknown " + col.replace(" ", "")
UnknownOf(col) ==
    CASE col = "Category" -> "Unknown Category"
      [] col = "Sub Category" -> "Unknown SubCategory"
      [] col = "Tahun Produksi" -> "Unknown TahunProduksi"
      [] col = "Season" -> "Unknown Season"
      [] col = "Singkatan Nama Produk" -> "Unknown SingkatanNamaProduk"
      [] col = "Warna Produk" -> "Unknown WarnaProduk"
      [] col = "Size Produk" -> "Unknown SizeProduk"
      [] col = "Is Deffect" -> "Unknown IsDeffect"

\* the loop over the eight columns: a column the table lacks is created
\* with its default, a column it has keeps its values, the missing ones
\* filled with the default
WithDefaults(row) ==
    [col \in DOMAIN row \cup default_sku_info_cols |->
        IF col \notin DOMAIN row THEN Text(UnknownOf(col))
        ELSE IF col \in default_sku_info_cols THEN fillna(row[col], Text(UnknownOf(col)))
        ELSE row[col]]

\* (2020 + deffect_digit).astype(str)
DigitValue(ch) == (CHOOSE i \in DOMAIN DigitChars : DigitChars[i] = ch) - 1
DigitsText(digits) == Join([i \in 1..Len(digits) |-> DigitChars[digits[i] + 1]])
DeffectYear(code) == Text(DigitsText(DecimalDigits(2020 + DigitValue(code[2]))))

\* the size looked up from the pattern's fifth group
size_from_group(sku_upper, sku_decoder) ==
    fillna(map(extract(sku_upper).size, get(sku_decoder, "UKURAN")), Text("Unknown Ukuran"))

\* str[-2:].map(ukuran_map).fillna("Unknown Ukuran")
SizeProduk(sku_upper, sku_decoder) ==
    fillna(map(LastChars(sku_upper, 2), get(sku_decoder, "UKURAN")), Text("Unknown Ukuran"))

\* the category looked up from the first four characters
category_from_four(sku_upper, sku_decoder) ==
    fillna(map(FirstChars(sku_upper, 4), get(sku_decoder, "CATEGORY")), Text("Unknown Category"))

\* str[:3].map(category_map).fillna("Unknown Category")
Category(sku_upper, sku_decoder) ==
    fillna(map(FirstChars(sku_upper, 3), get(sku_decoder, "CATEGORY")), Text("Unknown Category"))

\* str[:4].map(sub_category_map).fillna("Unknown Sub Category")
SubCategory(sku_upper, sku_decoder) ==
    fillna(map(FirstChars(sku_upper, 4), get(sku_decoder, "SUB_CATEGORY")),
           Text("Unknown Sub Category"))

\* temp_Year_Deffect_Code.str.startswith('D')
IsDeffect(parts) == startswith_D(parts.year)

\* the year mapped from the TAHUN PRODUKSI bucket, else the column's value so
\* far; a deffect row whose year is then the text Unknown Tahun gets 2020 + d
TahunProduksi(parts, sku_decoder, default) ==
    LET mapped_years == map(parts.year, get(sku_decoder, "TAHUN PRODUKSI"))
        tahun == fillna(mapped_years, default)
        deffect_mask == IsDeffect(parts) /\ tahun = Text("Unknown Tahun")
    IN  IF deffect_mask THEN DeffectYear(parts.year) ELSE tahun

\* the columns dropped at the end
temp_cols == {"SKU_UPPER", "temp_Year_Deffect_Code", "temp_Season_Code",
              "temp_Product_Name_Code", "temp_Color_Code"}

\* the main branch, for one row
EnrichRow(row, sku_decoder) ==
    LET sku_upper == upper(astype_str(row["SKU"]))
        df_copy == WithDefaults(row)
        parts == extract(sku_upper)
        info ==
            [col \in default_sku_info_cols |->
                CASE col = "Size Produk" -> SizeProduk(sku_upper, sku_decoder)
                  [] col = "Category" -> Category(sku_upper, sku_decoder)
                  [] col = "Sub Category" -> SubCategory(sku_upper, sku_decoder)
                  [] col = "Is Deffect" -> Bool(IsDeffect(parts))
                  [] col = "Tahun Produksi" ->
                        TahunProduksi(parts, sku_decoder, df_copy["Tahun Produksi"])
                  [] col = "Season" ->
                        fillna(map(parts.season, get(sku_decoder, "SEASON")), df_copy["Season"])
                  [] col = "Singkatan Nama Produk" ->
                        fillna(map(parts.name, get(sku_decoder, "SINGKATAN_NAMA_PRODUK")),
                               df_copy["Singkatan Nama Produk"])
                  [] col = "Warna Produk" ->
                        fillna(map(parts.color, get(sku_decoder, "WARNA")),
                               df_copy["Warna Produk"])]
    IN  [col \in (DOMAIN df_copy) \ temp_cols |->
            IF col \in default_sku_info_cols THEN info[col] ELSE df_copy[col]]

\* the main branch keeping only the rows whose SKU matches the pattern
enrich_matched_rows(df, sku_decoder) ==
    LET matched(row) == "SKU" \in DOMAIN row
                        /\ extract(upper(astype_str(row["SKU"]))) # NoParts
        kept == SelectSeq(df, matched)
    IN  [i \in 1..Len(kept) |-> EnrichRow(kept[i], sku_decoder)]

\* an empty table or one without a SKU column gets the eight columns with
\* their defaults; any other table goes through the main branch
enrich_dataframe_with_sku_info(df, sku_decoder) ==
    IF df_empty(df) \/ "SKU" \notin Columns(df)
    THEN [i \in 1..Len(df) |-> WithDefaults(df[i])]
    ELSE [i \in 1..Len(df) |-> EnrichRow(df[i], sku_decoder)]

(***************************************************************************)
(* The calls of enrich_dataframe_with_sku_info that load_data makes: the   *)
(* tables and decoders it can be called with.  The tables are the ones an  *)
(* uploaded file gives that does not itself carry one of the eight         *)
(* enrichment columns or a temp_ column.                                   *)
(***************************************************************************)
SkuPrefixes == {<<"Z", "O", "Z", "A">>, <<"z", "o", "z", "a">>, <<"2", "0", "2">>, <<>>}
YearCodes == {<<"2", "1">>, <<"2", "4">>, <<"D", "1">>, <<"d", "9">>, <<"2", "X">>}
SkuSeparators == {"-", " ", "_"}
ProductNames == {<<"M", "I", "A">>, <<"L", "U", "N", "A">>, <<>>}
SkuSizes == {<<"3", "5">>, <<"0", "1">>, <<"3">>}

SkuOf(prefix, year, sep, name, size) ==
    prefix \o year \o <<"B", "A", "S">> \o <<sep>> \o name \o <<"-", "T", "B", "W">> \o size

ExampleSku == SkuOf(<<"Z", "O", "Z", "A">>, <<"2", "1">>, "-", <<"M", "I", "A">>, <<"3", "5">>)
DeffectSku == SkuOf(<<"2", "0", "2">>, <<"D", "1">>, " ", <<"L", "U", "N", "A">>, <<"0", "1">>)

Skus ==
    {SkuOf(prefix, year, sep, name, size) :
        prefix \in SkuPrefixes, year \in YearCodes, sep \in SkuSeparators,
        name \in ProductNames, size \in SkuSizes}
    \cup {<<>>, <<"Z", "O">>}

SkuRow(cell) == ("SKU" :> cell) @@ ("Nama Item" :> Text("item"))
NoSkuRow(name) == "Nama Item" :> Text(name)

EnrichTables ==
    {<<SkuRow(Str(sku))>> : sku \in Skus}
    \cup {<<SkuRow(NaN)>>, <<SkuRow(Str(<<>>)), SkuRow(Str(ExampleSku))>>,
          <<SkuRow(Str(ExampleSku)), SkuRow(Str(<<"Z", "O">>)), SkuRow(NaN)>>,
          <<SkuRow(Str(DeffectSku)), SkuRow(Str(ExampleSku))>>}
    \cup {EmptyDF, <<NoSkuRow("item")>>, <<NoSkuRow("item"), NoSkuRow("other")>>}

FullDecoder ==
    [b \in {"CATEGORY", "SUB_CATEGORY", "SEASON", "WARNA", "UKURAN",
            "TAHUN PRODUKSI", "SINGKATAN_NAMA_PRODUK", "DEFFECT"} |->
        CASE b = "CATEGORY" -> ("ZOZ" :> "Kids")
          [] b = "SUB_CATEGORY" -> ("ZOZA" :> "Kids A")
          [] b = "SEASON" -> ("BAS" :> "Basic")
          [] b = "WARNA" -> ("TBW" :> "Brown White")
          [] b = "UKURAN" -> ("35" :> "L")
          [] b = "TAHUN PRODUKSI" -> ("21" :> "2021")
          [] b = "SINGKATAN_NAMA_PRODUK" -> ("MIA" :> "Mia")
          [] b = "DEFFECT" -> ("D1" :> "Deffect 2021")]

\* a decoder without most buckets, whose master sheet lists deffect codes
\* under TAHUN PRODUKSI
DeffectYearsDecoder ==
    [b \in {"CATEGORY", "TAHUN PRODUKSI"} |->
        IF b = "CATEGORY" THEN ("ZOZ" :> "Kids")
        ELSE ("D1" :> "2021 Deffect") @@ ("D9" :> "Unknown Tahun")]

EnrichDecoders == {EmptyDecoder, GoodDecoder, FullDecoder, DeffectYearsDecoder}

NotCalled == [df |-> EmptyDF, sku_decoder |-> EmptyDecoder, returned |-> EmptyDF,
              called |-> FALSE]

(***************************************************************************)
(* clean_financial_string.  The argument is a missing value, a number or a *)
(* text; a number is a decimal m * 10^e kept in lowest form (e <= 0, m not *)
(* a multiple of 10 unless e = 0), which is how two numbers written with   *)
(* different digits compare equal.  The texts are over the characters      *)
(* CleanAlphabet: float() is modelled for a sign, digits and dots.         *)
(***************************************************************************)
RECURSIVE Normalised(_, _)
Normalised(m, e) ==
    IF m = 0 THEN [t |-> "float", m |-> 0, e |-> 0]
    ELSE IF e < 0 /\ m % 10 = 0 THEN Normalised(m \div 10, e + 1)
    ELSE [t |-> "float", m |-> m, e |-> e]

Zero == Normalised(0, 0)

\* str.strip(): the text without its leading and trailing spaces
RECURSIVE strip(_)
strip(chars) ==
    IF chars = <<>> THEN chars
    ELSE IF chars[1] = " " THEN strip(Tail(chars))
    ELSE IF chars[Len(chars)] = " " THEN strip(SubSeq(chars, 1, Len(chars) - 1))
    ELSE chars

\* s.replace('Rp', ''): every occurrence, found from the left
RECURSIVE replace_Rp(_)
replace_Rp(chars) ==
    IF Len(chars) < 2 THEN chars
    ELSE IF chars[1] = "R" /\ chars[2] = "p" THEN replace_Rp(SubSeq(chars, 3, Len(chars)))
    ELSE <<chars[1]>> \o replace_Rp(Tail(chars))

\* s.replace(old, '') and s.replace(old, new) for single characters
remove(chars, old) == SelectSeq(chars, LAMBDA ch : ch # old)
replace(chars, old, new) == [i \in 1..Len(chars) |-> IF chars[i] = old THEN new ELSE chars[i]]

\* s.rfind(ch): the 0-based position of the last ch, -1 when there is none
rfind(chars, ch) ==
    IF \E i \in 1..Len(chars) : chars[i] = ch
    THEN (CHOOSE i \in 1..Len(chars) :
              chars[i] = ch /\ \A j \in (i + 1)..Len(chars) : chars[j] # ch) - 1
    ELSE 0 - 1

\* a comma anywhere makes the comma the decimal separator
comma_if_present(chars) == \E i \in 1..Len(chars) : chars[i] = ","

\* ',' in s and (s.rfind(',') > s.rfind('.'))
comma_is_decimal(chars) ==
    /\ \E i \in 1..Len(chars) : chars[i] = ","
    /\ rfind(chars, ",") > rfind(chars, ".")

\* the text handed to float()
cleaned(chars) ==
    LET s == remove(replace_Rp(strip(chars)), " ")
    IN  IF comma_is_decimal(s) THEN replace(remove(s, "."), ",", ".")
        ELSE remove(s, ",")

\* the texts float() accepts: an optional sign, then digits with at most one
\* dot among them and at least one digit
Unsigned(chars) == IF chars # <<>> /\ chars[1] = "-" THEN Tail(chars) ELSE chars

IsFloatLiteral(chars) ==
    LET u == Unsigned(chars)
    IN  /\ \A i \in 1..Len(u) : IsDigitChar(u[i]) \/ u[i] = "."
        /\ \E i \in 1..Len(u) : IsDigitChar(u[i])
        /\ Cardinality({i \in 1..Len(u) : u[i] = "."}) <= 1

RECURSIVE DigitsValue(_)
DigitsValue(chars) ==
    IF chars = <<>> THEN 0
    ELSE 10 * DigitsValue(SubSeq(chars, 1, Len(chars) - 1)) + DigitValue(chars[Len(chars)])

\* float(s) of a text float() accepts
float(chars) ==
    LET u == Unsigned(chars)
        dot == rfind(u, ".") + 1
        decimals == IF dot = 0 THEN 0 ELSE Len(u) - dot
        m == DigitsValue(remove(u, "."))
    IN  Normalised(IF u = chars THEN m ELSE 0 - m, 0 - decimals)

\* the digits of the text read as a number, whatever else the text holds
try_float_digits(chars) == Normalised(DigitsValue(SelectSeq(chars, IsDigitChar)), 0)

\* try: return float(s) / except ValueError: return 0.0
try_float(chars) == IF IsFloatLiteral(chars) THEN float(chars) ELSE Zero

clean_financial_string(s) ==
    IF isna(s) THEN Zero
    ELSE IF s.t = "float" THEN s
    ELSE try_float(cleaned(s.v))

(***************************************************************************)
(* The arguments clean_financial_string is called with: every text of at   *)
(* most MaxTextLen characters of CleanAlphabet, the amounts of one to      *)
(* three groups of digits written with thousands dots and a decimal comma  *)
(* or with thousands commas and a decimal dot, with and without decimals,  *)
(* the currency marker and a sign, a missing value and numbers.  The       *)
(* amounts have at most ten digits.                                        *)
(***************************************************************************)
CleanAlphabet == {"0", "1", ".", ",", "-", " ", "R", "p", "x"}

ShortTexts == UNION {[1..n -> CleanAlphabet] : n \in 0..MaxTextLen}

LeadingGroups == {<<"1">>, <<"2", "0">>}
ThousandGroups == {<<>>, <<"2", "3", "4">>, <<"2", "3", "4", "5", "6", "7">>}
DecimalDigitsOf == {<<>>, <<"8", "9">>, <<"5">>}
AmountPrefixes == {<<>>, <<"R", "p", " ">>, <<"-">>, <<"R", "p">>}

RECURSIVE Grouped(_, _)
Grouped(digits, sep) ==
    IF digits = <<>> THEN <<>>
    ELSE <<sep>> \o SubSeq(digits, 1, 3) \o Grouped(SubSeq(digits, 4, Len(digits)), sep)

\* the amount written with thousands separator sep and decimal separator dec
Amount(prefix, lead, thousands, decimals, sep, dec) ==
    prefix \o lead \o Grouped(thousands, sep)
        \o (IF decimals = <<>> THEN <<>> ELSE <<dec>> \o decimals)

Amounts ==
    {Amount(prefix, lead, thousands, decimals, seps[1], seps[2]) :
        prefix \in AmountPrefixes, lead \in LeadingGroups, thousands \in ThousandGroups,
        decimals \in DecimalDigitsOf, seps \in {<<".", ",">>, <<",", ".">>}}

CleanArguments ==
    {Str(chars) : chars \in ShortTexts \cup Amounts}
    \cup {NaN, Normalised(0, 0), Normalised(5, 0), Normalised(0 - 125, 0 - 2)}

NotCleaned == [s |-> NaN, returned |-> Zero, called |-> FALSE]

(***************************************************************************)
(* load_sku_master.  The uploaded sheet is its header (the column names as *)
(* written in the file) and its rows, each row the cells under the header  *)
(* from left to right; a cell is a text or empty (NaN).  Whitespace is the *)
(* space character.                                                        *)
(***************************************************************************)
\* the decoder before any row is read
sku_decoder_init ==
    [b \in {"CATEGORY", "SUB_CATEGORY", "SEASON", "WARNA", "UKURAN",
            "TAHUN PRODUKSI", "SINGKATAN_NAMA_PRODUK", "DEFFECT"} |-> <<>>]

jenis_normalization_map_raw ==
    << <<<<"C","A","T","E","G","O","R","Y">>, "CATEGORY">>,
       <<<<"S","U","B"," ","C","A","T","E","G","O","R","Y">>, "SUB_CATEGORY">>,
       <<<<"S","U","B","_","C","A","T","E","G","O","R","Y">>, "SUB_CATEGORY">>,
       <<<<"S","E","A","S","O","N">>, "SEASON">>,
       <<<<"W","A","R","N","A">>, "WARNA">>,
       <<<<"U","K","U","R","A","N">>, "UKURAN">>,
       <<<<"T","A","H","U","N"," ","P","R","O","D","U","K","S","I">>, "TAHUN PRODUKSI">>,
       <<<<"T","A","H","U","N"," ","L","A","U","N","C","H","I","N","G">>, "TAHUN PRODUKSI">>,
       <<<<"T","A","H","U","N">>, "TAHUN PRODUKSI">>,
       <<<<"S","I","N","G","K","A","T","A","N"," ","D","A","R","I"," ",
           "N","A","M","A"," ","P","R","O","D","U","K">>, "SINGKATAN_NAMA_PRODUK">>,
       <<<<"N","A","M","A"," ","P","R","O","D","U","K">>, "SINGKATAN_NAMA_PRODUK">>,
       <<<<"D","E","F","F","E","C","T">>, "DEFFECT">> >>

\* re.sub(r'\s+', '', s)
remove_whitespace(chars) == remove(chars, " ")

\* {re.sub(r'\s+', '', k).upper(): v for k, v in ...items()}: a later item
\* with the same normalised key replaces an earlier one
jenis_normalization_map ==
    LET raw == jenis_normalization_map_raw
        key(i) == Join(upper(remove_whitespace(raw[i][1])))
    IN  [k \in {key(i) : i \in DOMAIN raw} |->
            raw[CHOOSE i \in DOMAIN raw :
                    key(i) = k /\ \A j \in DOMAIN raw : key(j) = k => j <= i][2]]

\* re.sub(r'\s+', ' ', col).strip()
RECURSIVE collapse_whitespace(_)
collapse_whitespace(chars) ==
    IF Len(chars) < 2 THEN chars
    ELSE IF chars[1] = " " /\ chars[2] = " " THEN collapse_whitespace(Tail(chars))
    ELSE <<chars[1]>> \o collapse_whitespace(Tail(chars))

clean_column(col) == Join(strip(collapse_whitespace(col)))

\* df_sku_master after the column names are cleaned
clean_columns(file) ==
    [file EXCEPT !.columns = [j \in DOMAIN file.columns |-> clean_column(file.columns[j])]]

required_cols == <<"CODE", "ARTI", "JENIS">>

\* for the check of the required columns against one column only
has_code_col(df_sku_master) ==
    \E j \in DOMAIN df_sku_master.columns : df_sku_master.columns[j] = "CODE"

has_required_cols(df_sku_master) ==
    \A r \in DOMAIN required_cols :
        \E j \in DOMAIN df_sku_master.columns : df_sku_master.columns[j] = required_cols[r]

\* row.get(col, ''): the cell under the column, '' when there is no such column
row_get(df_sku_master, row, col) ==
    IF \E j \in DOMAIN df_sku_master.columns : df_sku_master.columns[j] = col
    THEN row[CHOOSE j \in DOMAIN df_sku_master.columns : df_sku_master.columns[j] = col]
    ELSE Str(<<>>)

NoJenisKey == "None"

code_of(df_sku_master, row) ==
    Join(upper(strip(astype_str(row_get(df_sku_master, row, "CODE")))))
arti_of(df_sku_master, row) ==
    Join(strip(astype_str(row_get(df_sku_master, row, "ARTI"))))
jenis_raw_from_excel(df_sku_master, row) ==
    upper(strip(astype_str(row_get(df_sku_master, row, "JENIS"))))

\* for the lookup of a JENIS text as it was written, spaces kept
jenis_with_spaces(jenis_raw) == Join(jenis_raw)

jenis_normalized_for_lookup(jenis_raw) == Join(remove_whitespace(jenis_raw))

jenis_key_of(df_sku_master, row) ==
    LET lookup == jenis_normalized_for_lookup(jenis_raw_from_excel(df_sku_master, row))
    IN  IF lookup \in DOMAIN jenis_normalization_map
        THEN jenis_normalization_map[lookup] ELSE NoJenisKey

\* for a decoder that keeps the first meaning it was given for a code
keep_first(bucket, code, arti) ==
    IF code \in DOMAIN bucket THEN bucket ELSE (code :> arti) @@ bucket

\* sku_decoder[jenis_key][code] = arti
set_item(bucket, code, arti) == (code :> arti) @@ bucket

\* one turn of the loop over the rows
store_row(sku_decoder, df_sku_master, row) ==
    LET code == code_of(df_sku_master, row)
        arti == arti_of(df_sku_master, row)
        jenis_key == jenis_key_of(df_sku_master, row)
    IN  IF code # "" /\ jenis_key # NoJenisKey /\ jenis_key \in DOMAIN sku_decoder
        THEN [sku_decoder EXCEPT ![jenis_key] = set_item(@, code, arti)]
        ELSE sku_decoder

RECURSIVE store_rows(_, _, _)
store_rows(sku_decoder, df_sku_master, n) ==
    IF n = 0 THEN sku_decoder
    ELSE store_row(store_rows(sku_decoder, df_sku_master, n - 1),
                   df_sku_master, df_sku_master.rows[n])

load_sku_master(file_uploader) ==
    LET df_sku_master == clean_columns(file_uploader)
    IN  IF ~has_required_cols(df_sku_master) THEN EmptyDecoder
        ELSE store_rows(sku_decoder_init, df_sku_master, Len(df_sku_master.rows))

Truthy(dict) == DOMAIN dict # {}

\* if not temp_sku_decoder: ... else: st.session_state['sku_decoder'] =
\* temp_sku_decoder
AfterMasterLoad(sku_decoder, temp_sku_decoder) ==
    [temp_sku_decoder |-> temp_sku_decoder,
     sku_decoder |-> IF Truthy(temp_sku_decoder) THEN temp_sku_decoder ELSE sku_decoder]

\* the handler of the master uploader: the decoder it loads and the decoder
\* the session holds afterwards
MasterUpload(sku_decoder, uploaded_sku_master_file) ==
    AfterMasterLoad(sku_decoder, load_sku_master(uploaded_sku_master_file))

(***************************************************************************)
(* Master sheets.  A sheet is written from a header, which names each      *)
(* column and says which entry of a row it carries, and from rows of CODE, *)
(* ARTI and JENIS entries.                                                 *)
(***************************************************************************)
Sheet(header, rows) ==
    [columns |-> [j \in DOMAIN header |-> header[j].name],
     rows |-> [i \in DOMAIN rows |-> [j \in DOMAIN header |-> rows[i][header[j].of]]]]

CodeColumn == [name |-> <<"C","O","D","E">>, of |-> "CODE"]
ArtiColumn == [name |-> <<"A","R","T","I">>, of |-> "ARTI"]
JenisColumn == [name |-> <<"J","E","N","I","S">>, of |-> "JENIS"]

\* headers other than the plain one: names with spaces around them and in
\* another order, a name in lower case, and headers that lack a column
OtherHeaders ==
    { <<[name |-> <<"J","E","N","I","S"," ">>, of |-> "JENIS"],
        [name |-> <<" ","C","O","D","E">>, of |-> "CODE"],
        [name |-> <<"A","R","T","I">>, of |-> "ARTI"]>>,
      <<[name |-> <<"c","o","d","e">>, of |-> "CODE"], ArtiColumn, JenisColumn>>,
      <<CodeColumn, JenisColumn>>,
      <<CodeColumn, ArtiColumn>>,
      <<ArtiColumn, JenisColumn>> }

MasterEntry(code, arti, jenis) == [CODE |-> code, ARTI |-> arti, JENIS |-> jenis]

MasterEntries ==
    { MasterEntry(Str(<<"z","o","z","a">>), Str(<<"K","i","d","s"," ","A">>),
                  Str(<<"S","U","B"," ","C","A","T","E","G","O","R","Y">>)),
      MasterEntry(Str(<<"Z","O","Z","A"," ">>), Str(<<"K","i","d","s"," ","B"," ">>),
                  Str(<<"s","u","b","_","c","a","t","e","g","o","r","y">>)),
      MasterEntry(Str(<<"Z","O","Z","A">>), Str(<<"K","i","d","s">>),
                  Str(<<"C","A","T","E","G","O","R","Y">>)),
      MasterEntry(Str(<<"2","1">>), Str(<<"2","0","2","1">>),
                  Str(<<"T","A","H","U","N">>)),
      MasterEntry(Str(<<"2","1">>), Str(<<"2","0","2","1"," ","L">>),
                  Str(<<" ","T","a","h","u","n"," "," ","L","a","u","n","c","h","i","n","g">>)),
      MasterEntry(Str(<<"2","1">>), Str(<<"2","0","2","1"," ","P">>),
                  Str(<<"T","A","H","U","N"," ","P","R","O","D","U","K","S","I">>)),
      MasterEntry(Str(<<"2","1">>), Str(<<"X","L">>),
                  Str(<<"U","K","U","R","A","N">>)),
      MasterEntry(Str(<<"2","1">>), Str(<<"R","e","d">>),
                  Str(<<"C","O","L","O","R">>)),
      MasterEntry(Str(<<" ">>), Str(<<"n","o","n","e">>),
                  Str(<<"S","U","B"," ","C","A","T","E","G","O","R","Y">>)) }

\* the entries written under the other headers
FewEntries ==
    { MasterEntry(Str(<<"z","o","z","a">>), Str(<<"K","i","d","s"," ","A">>),
                  Str(<<"S","U","B"," ","C","A","T","E","G","O","R","Y">>)),
      MasterEntry(Str(<<"2","1">>), Str(<<"R","e","d">>),
                  Str(<<"C","O","L","O","R">>)) }

MasterRows(entries) == UNION {[1..n -> entries] : n \in 0..MaxMasterRows}

MasterSheets ==
    {Sheet(<<CodeColumn, ArtiColumn, JenisColumn>>, rows) : rows \in MasterRows(MasterEntries)}
        \cup {Sheet(header, rows) : header \in OtherHeaders, rows \in MasterRows(FewEntries)}

\* the master files the admin uploads in the session specifications: a file
\* with the three columns and a file that lacks one of them
MasterFiles == {"good", "bad"}
GoodEntry == MasterEntry(Str(<<"3","5">>), Str(<<"L">>), Str(<<"U","K","U","R","A","N">>))
UploadedMaster(name) ==
    IF name = "good" THEN Sheet(<<CodeColumn, ArtiColumn, JenisColumn>>, <<GoodEntry>>)
    ELSE Sheet(<<CodeColumn, ArtiColumn>>, <<GoodEntry>>)

\* the decoders a session holds when a master file is uploaded: none yet,
\* and the one loaded from an earlier upload
HeldDecoders == {EmptyDecoder, load_sku_master(UploadedMaster("good"))}

NotUploaded ==
    [file |-> Sheet(<<>>, <<>>), sku_decoder |-> EmptyDecoder,
     returned |-> EmptyDecoder, kept |-> EmptyDecoder, called |-> FALSE]

(***************************************************************************)
(* Sessions.  The fields up to table_files are st.session_state and the    *)
(* uploader widgets; the rest are the running script's position and        *)
(* locals, the return value of its last load_data_from_admin call, and a   *)
(* record of its latest run.                                               *)
(***************************************************************************)
NoTables == [k \in KeyIx |-> EmptyDF]

InitSession ==
    [current_user_id |-> NoUser, is_admin |-> FALSE,
     df |-> NoTables, sku_decoder |-> EmptyDecoder,
     master_file |-> "none", master_loaded |-> EmptyDecoder,
     table_files |-> [k \in KeyIx |-> NoFile],
     pc |-> "idle", clicked |-> FALSE, uncaught |-> FALSE,
     last_update_timestamp_str |-> 0,
     key |-> 1, cursor |-> NoDocId, i |-> 0, all_records |-> <<>>,
     loaded_dataframes |-> NoTables, loaded_sku_decoder |-> EmptyDecoder,
     load_status |-> "none", load_failed_at |-> 0,
     last_run_marker |-> 0]

NoSave ==
    [status |-> "none", dataframes |-> NoTables, sku_decoder |-> EmptyDecoder,
     marker_writes |-> 0, same_as_previous |-> FALSE,
     stopped |-> [key |-> 0, pc |-> "none"],
     before |-> [main |-> [k \in KeyIx |-> FALSE], chunks |-> [k \in KeyIx |-> 0],
                 marker |-> 0]]

\* A configuration c of the script running in a session: the session c.ss, the
\* store c.st, the record c.ls of the last save and the number c.fl of store
\* failures so far.
\* the script run ends
Finish(c) ==
    [c EXCEPT !.ss.pc = "idle", !.ss.clicked = FALSE, !.ss.key = 1,
              !.ss.cursor = NoDocId, !.ss.i = 0, !.ss.all_records = <<>>]

RECURSIVE StartScript(_, _)

(***************************************************************************)
(* save_data_for_admin, one document operation at a time                   *)
(***************************************************************************)
\* the call returns to the save button handler, which ends in st.rerun()
SaveReturn(c, status) == StartScript([c EXCEPT !.ls.status = status], FALSE)

SaveNextKey(c) ==
    IF c.ss.key < NumKeys
    THEN [c EXCEPT !.ss.key = @ + 1, !.ss.cursor = NoDocId, !.ss.pc = "save_stream"]
    ELSE [c EXCEPT !.ss.pc = "save_decoder"]

\* if df.empty: continue
AfterCleanup(c) ==
    IF df_empty(c.ss.df[c.ss.key]) THEN SaveNextKey(c)
    ELSE [c EXCEPT !.ss.pc = "save_setmain"]

\* the empty table skipped before its stored documents are deleted
SaveStream_skip_empty(c) ==
    LET nx == StreamNext(DOMAIN c.st.chunks[c.ss.key], c.ss.cursor)
    IN  IF df_empty(c.ss.df[c.ss.key]) THEN SaveNextKey(c)
        ELSE IF nx = NoDocId THEN [c EXCEPT !.ss.pc = "save_getmain"]
        ELSE [c EXCEPT !.ss.cursor = nx, !.ss.pc = "save_delete"]

\* for chunk_doc in existing_chunks: the stream hands over its next document
SaveStream(c) ==
    LET nx == StreamNext(DOMAIN c.st.chunks[c.ss.key], c.ss.cursor)
    IN  IF nx = NoDocId THEN [c EXCEPT !.ss.pc = "save_getmain"]
        ELSE [c EXCEPT !.ss.cursor = nx, !.ss.pc = "save_delete"]

\* the chunk document left in place
SaveDelete_keep(c) == [c EXCEPT !.ss.pc = "save_stream"]

\* chunk_doc.reference.delete()
SaveDelete(c) ==
    [c EXCEPT !.st.chunks[c.ss.key] = Remove(@, c.ss.cursor), !.ss.pc = "save_stream"]

\* if df_main_doc_ref.get().exists
SaveGetMain(c) ==
    IF c.st.main[c.ss.key].exists THEN [c EXCEPT !.ss.pc = "save_delmain"]
    ELSE AfterCleanup(c)

\* the stored manifest left in place
SaveDelMain_keeps(c) == AfterCleanup(c)

\* the table skipped once its stored manifest is deleted
SaveDelMain_continue(c) == SaveNextKey([c EXCEPT !.st.main[c.ss.key] = NoDoc])

\* df_main_doc_ref.delete()
SaveDelMain(c) == AfterCleanup([c EXCEPT !.st.main[c.ss.key] = NoDoc])

\* df_main_doc_ref.set({"chunked": True, "num_chunks": ..., "num_records": ...})
SaveSetMain(c) ==
    LET m == Manifest(c.ss.df[c.ss.key])
        c1 == [c EXCEPT !.st.main[c.ss.key] = m, !.ss.i = 0]
    IN  IF m.num_chunks > 0 THEN [c1 EXCEPT !.ss.pc = "save_setchunk"]
        ELSE SaveNextKey(c1)

\* chunks_collection_ref.document(f"chunk_{i}").set({"data": chunk_data})
SaveSetChunk(c) ==
    LET df == c.ss.df[c.ss.key]
        doc == [data |-> chunk_data(records_to_save(df), c.ss.i)]
        c1 == [c EXCEPT !.st.chunks[c.ss.key] = Put(@, c.ss.i, doc), !.ss.i = @ + 1]
    IN  IF c1.ss.i < num_chunks_of(Len(df)) THEN c1 ELSE SaveNextKey(c1)

\* metadata/sku_decoder .set({"decoder": sku_decoder_data})
SaveDecoder(c) ==
    [c EXCEPT !.st.sku_decoder = [exists |-> TRUE, decoder |-> c.ss.sku_decoder],
              !.ss.pc = "save_last_update"]

\* metadata/last_update .set({"timestamp": firestore.SERVER_TIMESTAMP})
SaveLastUpdate(c) ==
    SaveReturn([c EXCEPT !.st.last_update = [exists |-> TRUE, timestamp |-> ServerTime(c.st)],
                         !.ls.marker_writes = @ + 1], "done")

\* where the exception came from: the table being saved and, for the write
\* of its manifest, that position; none of the tables once the loop is over
StoppedAt(c) ==
    IF c.ss.pc \in {"save_decoder", "save_last_update"}
    THEN [key |-> 0, pc |-> "after_tables"]
    ELSE IF c.ss.pc = "save_setmain"
    THEN [key |-> c.ss.key, pc |-> "save_setmain"]
    ELSE [key |-> c.ss.key, pc |-> "in_table"]

\* the marker written on the way out of a failed save as well
SaveAbort_marks(c) ==
    SaveReturn([c EXCEPT !.st.last_update = [exists |-> TRUE, timestamp |-> ServerTime(c.st)],
                         !.ls.marker_writes = @ + 1], "aborted")

\* except Exception as e_save_firestore
SaveAbort(c) ==
    SaveReturn([c EXCEPT !.ls.stopped = StoppedAt(c)], "aborted")

\* the call save_data_for_admin(current_dataframes, sku_decoder, db)
StartSave(c) ==
    LET c1 == [c EXCEPT !.ss.clicked = FALSE,
                        !.ls = [status |-> "running", dataframes |-> c.ss.df,
                                sku_decoder |-> c.ss.sku_decoder, marker_writes |-> 0,
                                stopped |-> [key |-> 0, pc |-> "none"],
                                same_as_previous |->
                                    /\ c.ls.status = "done"
                                    /\ c.ls.dataframes = c.ss.df
                                    /\ c.ls.sku_decoder = c.ss.sku_decoder,
                                before |-> [main |-> [k \in KeyIx |-> c.st.main[k].exists],
                                            chunks |-> [k \in KeyIx |->
                                                Cardinality(DOMAIN c.st.chunks[k])],
                                            marker |-> MarkerOf(c.st)]]]
    IN  IF db = "None" THEN SaveReturn(c1, "skipped")
        ELSE [c1 EXCEPT !.ss.key = 1, !.ss.cursor = NoDocId, !.ss.pc = "save_stream"]

(***************************************************************************)
(* The sidebar below the load block: uploads and the save button           *)
(***************************************************************************)
\* load_data(file, file_type, sku_decoder), the file's rows; the columns that
\* enrich_dataframe_with_sku_info adds to them play no part in saving and
\* loading and are left out of these rows
load_data(file, k, sku_decoder) == FileTable(Keys[k], file)

ProcessUploads(ss) ==
    LET upload == AfterMasterLoad(ss.sku_decoder, ss.master_loaded)
        temp_sku_decoder ==
            IF ss.master_file # "none" THEN upload.temp_sku_decoder ELSE ss.sku_decoder
        raw(k) == load_data(ss.table_files[k], k, temp_sku_decoder)
    IN  [ss EXCEPT
            !.sku_decoder = IF ss.master_file # "none" THEN upload.sku_decoder ELSE @,
            !.df = [k \in KeyIx |->
                        IF /\ ss.table_files[k] # NoFile
                           /\ Truthy(temp_sku_decoder)
                           /\ ~df_empty(raw(k))
                        THEN raw(k) ELSE ss.df[k]]]

AfterLoadBlock(c) ==
    IF c.ss.current_user_id # NoUser /\ c.ss.is_admin
    THEN LET c1 == [c EXCEPT !.ss = ProcessUploads(@)]
         IN  IF c1.ss.clicked THEN StartSave(c1) ELSE Finish(c1)
    ELSE Finish(c)

(***************************************************************************)
(* load_data_from_admin, one document operation at a time                  *)
(***************************************************************************)
\* return loaded_dataframes, loaded_sku_decoder; the caller stores both in
\* st.session_state
LoadReturn(c, status) ==
    AfterLoadBlock([c EXCEPT !.ss.load_status = status,
                             !.ss.df = c.ss.loaded_dataframes,
                             !.ss.sku_decoder = c.ss.loaded_sku_decoder,
                             !.ss.all_records = <<>>])

\* the exception of the store not caught
LoadAbort_raises(c) ==
    Finish([c EXCEPT !.ss.load_status = "failed", !.ss.uncaught = TRUE,
                     !.ss.load_failed_at =
                        IF c.ss.pc = "load_decoder" THEN NumKeys + 1 ELSE c.ss.key])

\* except Exception as e_load_firestore
LoadAbort(c) ==
    LoadReturn([c EXCEPT !.ss.load_failed_at =
                    IF c.ss.pc = "load_decoder" THEN NumKeys + 1 ELSE c.ss.key], "failed")

LoadNextKey(c) ==
    IF c.ss.key < NumKeys THEN [c EXCEPT !.ss.key = @ + 1, !.ss.pc = "load_main"]
    ELSE [c EXCEPT !.ss.pc = "load_decoder"]

\* last_update_doc_ref.get(), then the call load_data_from_admin(db, ...)
GetLastUpdate(c, fail) ==
    [c EXCEPT !.ss.last_update_timestamp_str = IF fail THEN 0 ELSE MarkerOf(c.st),
              !.ss.loaded_dataframes = NoTables,
              !.ss.loaded_sku_decoder = EmptyDecoder,
              !.ss.load_status = "running", !.ss.load_failed_at = 0,
              !.ss.key = 1, !.ss.pc = "load_main"]

\* main_doc = df_main_doc_ref.get()
LoadMain(c) ==
    LET main_doc == c.st.main[c.ss.key]
    IN  IF main_doc.exists /\ main_doc.chunked
        THEN [c EXCEPT !.ss.cursor = NoDocId, !.ss.all_records = <<>>,
                       !.ss.pc = "load_chunks"]
        ELSE [c EXCEPT !.ss.pc = "load_fallback"]

\* the missing manifest taken for an error
LoadFallback_fails(c) == LoadAbort(c)

\* doc = df_main_doc_ref.get(); no document of this store has a "data" field
LoadFallback(c) == LoadNextKey(c)

\* for chunk_doc in chunk_docs: all_records.extend(...); after the loop the
\* DataFrame is built when all_records is not empty
LoadChunks(c) ==
    LET k == c.ss.key
        nx == StreamNext(DOMAIN c.st.chunks[k], c.ss.cursor)
    IN  IF nx # NoDocId
        THEN [c EXCEPT !.ss.cursor = nx,
                       !.ss.all_records = @ \o c.st.chunks[k][nx].data]
        ELSE LoadNextKey(
                [c EXCEPT !.ss.loaded_dataframes[k] =
                              IF c.ss.all_records # <<>>
                              THEN DataFrameFromRecords(Keys[k], c.ss.all_records)
                              ELSE @,
                          !.ss.all_records = <<>>, !.ss.cursor = NoDocId])

\* sku_decoder_doc = sku_decoder_doc_ref.get()
LoadDecoder(c) ==
    LoadReturn([c EXCEPT !.ss.loaded_sku_decoder =
                    IF c.st.sku_decoder.exists THEN c.st.sku_decoder.decoder ELSE @],
               "ok")

(***************************************************************************)
(* The script from its top                                                 *)
(***************************************************************************)
StartScript(c, click) ==
    LET c1 == [c EXCEPT !.ss.clicked = click, !.ss.uncaught = FALSE,
                        !.ss.loaded_dataframes = NoTables,
                        !.ss.loaded_sku_decoder = EmptyDecoder,
                        !.ss.load_status = "none", !.ss.load_failed_at = 0,
                        !.ss.last_run_marker = MarkerOf(c.st)]
    IN  IF c1.ss.current_user_id # NoUser /\ df_empty(c1.ss.df[1])
        THEN IF db = "None"
             THEN \* db.collection(...) on None, outside every try
                  Finish([c1 EXCEPT !.ss.uncaught = TRUE])
             ELSE [c1 EXCEPT !.ss.pc = "get_last_update"]
        ELSE AfterLoadBlock(c1)

\* One document operation of the running script; fail: the store raises.
Step(c, fail) ==
    LET pc == c.ss.pc
        c1 == IF fail THEN [c EXCEPT !.fl = @ + 1] ELSE c
    IN  IF pc = "get_last_update" THEN GetLastUpdate(c1, fail)
        ELSE IF pc \in {"load_main", "load_fallback", "load_chunks", "load_decoder"}
        THEN IF fail THEN LoadAbort(c1)
             ELSE IF pc = "load_main" THEN LoadMain(c1)
             ELSE IF pc = "load_fallback" THEN LoadFallback(c1)
             ELSE IF pc = "load_chunks" THEN LoadChunks(c1)
             ELSE LoadDecoder(c1)
        ELSE IF fail THEN SaveAbort(c1)
        ELSE IF pc = "save_stream" THEN SaveStream(c1)
        ELSE IF pc = "save_delete" THEN SaveDelete(c1)
        ELSE IF pc = "save_getmain" THEN SaveGetMain(c1)
        ELSE IF pc = "save_delmain" THEN SaveDelMain(c1)
        ELSE IF pc = "save_setmain" THEN SaveSetMain(c1)
        ELSE IF pc = "save_setchunk" THEN SaveSetChunk(c1)
        ELSE IF pc = "save_decoder" THEN SaveDecoder(c1)
        ELSE SaveLastUpdate(c1)

\* The script run to its end, the store never raising.
RECURSIVE RunToEnd(_)
RunToEnd(c) == IF c.ss.pc = "idle" THEN c ELSE RunToEnd(Step(c, FALSE))

\* The configurations a script run can end in: the store raises at none of
\* its document operations or, when may_fail, at any one of them.
RECURSIVE Outcomes(_, _)
Outcomes(c, may_fail) ==
    IF c.ss.pc = "idle" THEN {c}
    ELSE Outcomes(Step(c, FALSE), may_fail)
            \cup (IF may_fail THEN {RunToEnd(Step(c, TRUE))} ELSE {})

(***************************************************************************)
(* Actions: a user event in session s and the script run it triggers.      *)
(* mode "whole": the action is the whole script run; "whole_may_fail":     *)
(* the same, and the store may raise at one document operation of the      *)
(* run; "steps": the action starts the run, whose document operations are  *)
(* then the actions StepScript.                                            *)
(***************************************************************************)
Cfg(s) == [ss |-> sess[s], st |-> store, ls |-> last_save, fl |-> failures]

Idle(s) == sess[s].pc = "idle"
WidgetsShown(s) ==
    /\ sess[s].current_user_id # NoUser /\ sess[s].is_admin /\ ~sess[s].uncaught

Commit(s, c) ==
    /\ sess' = [sess EXCEPT ![s] = c.ss]
    /\ store' = c.st
    /\ last_save' = c.ls
    /\ failures' = c.fl
    /\ UNCHANGED <<db, enrich, clean, master>>

Launch(s, c0, mode) ==
    /\ Idle(s)
    /\ IF mode = "steps" THEN Commit(s, c0)
       ELSE \E c \in Outcomes(c0, mode = "whole_may_fail" /\ failures < MaxFailures) :
                Commit(s, c)

LoggedIn(c, uid) ==
    [c EXCEPT !.ss.current_user_id = uid, !.ss.is_admin = (uid = ADMIN_USER_ID)]

\* the login button with a user id typed in: st.rerun()
Login(s, uid, mode) ==
    /\ sess[s].current_user_id = NoUser
    /\ Launch(s, StartScript(LoggedIn(Cfg(s), uid), FALSE), mode)

\* any other interaction of a logged-in user reruns the script
Rerun(s, mode) ==
    /\ sess[s].current_user_id # NoUser
    /\ Launch(s, StartScript(Cfg(s), FALSE), mode)

\* the admin fills the uploaders: a master file and files for the tables;
\* master_loaded is what load_sku_master returns for the master file each
\* time the script runs with the file in the uploader
Upload(s, master_file, files, mode) ==
    /\ WidgetsShown(s)
    /\ Launch(s, StartScript([Cfg(s) EXCEPT !.ss.master_file = master_file,
                                            !.ss.master_loaded =
                                                load_sku_master(UploadedMaster(master_file)),
                                            !.ss.table_files = files], FALSE), mode)

\* the button "Simpan Data & Perbarui Dashboard"
ClickSave(s, mode) ==
    /\ WidgetsShown(s)
    /\ ServerTime(store) <= MaxTime
    /\ Launch(s, StartScript(Cfg(s), TRUE), mode)

\* the browser page is reloaded: a new session
Refresh(s) ==
    /\ Idle(s) /\ sess[s] # InitSession
    /\ sess' = [sess EXCEPT ![s] = InitSession]
    /\ UNCHANGED <<db, store, last_save, failures, enrich, clean, master>>

\* one document operation of the script running in session s
StepScript(s) ==
    /\ ~Idle(s)
    /\ Commit(s, Step(Cfg(s), FALSE))

Init ==
    /\ db \in {"client", "None"}
    /\ store = EmptyStore
    /\ sess = [s \in Sessions |-> InitSession]
    /\ last_save = NoSave
    /\ failures = 0
    /\ enrich = NotCalled
    /\ clean = NotCleaned
    /\ master = NotUploaded

\* Spec: one admin session, whole script runs, the store may raise
Next ==
    \/ Login(1, ADMIN_USER_ID, "whole_may_fail")
    \/ Rerun(1, "whole_may_fail")
    \/ \E files \in {FullFiles, SalesOnlyFiles} : Upload(1, "good", files, "whole_may_fail")
    \/ ClickSave(1, "whole_may_fail")
    \/ Refresh(1)

Spec == Init /\ [][Next]_vars

\* SpecSessions: an admin session and a reader session, whole script runs
NextSessions ==
    \/ Login(1, ADMIN_USER_ID, "whole")
    \/ \E files \in {FullFiles, LongSalesFiles} : Upload(1, "good", files, "whole")
    \/ ClickSave(1, "whole")
    \/ Login(2, READER_USER_ID, "whole")
    \/ Rerun(2, "whole")

SpecSessions == Init /\ [][NextSessions]_vars

\* SpecConc: the document operations of the admin session's script and of
\* the reader session's script interleave
NextConc ==
    \/ Login(1, ADMIN_USER_ID, "steps")
    \/ \E files \in {FullFiles, SecondSalesFiles} : Upload(1, "good", files, "steps")
    \/ ClickSave(1, "steps")
    \/ Login(2, READER_USER_ID, "steps")
    \/ \E s \in Sessions : StepScript(s)

SpecConc == Init /\ [][NextConc]_vars

(***************************************************************************)
(* SpecEnrich: one call of enrich_dataframe_with_sku_info on a table and a *)
(* decoder                                                                 *)
(***************************************************************************)
InitEnrich ==
    /\ db = "client"
    /\ store = EmptyStore
    /\ sess = [s \in Sessions |-> InitSession]
    /\ last_save = NoSave
    /\ failures = 0
    /\ enrich \in {[NotCalled EXCEPT !.df = df, !.sku_decoder = sku_decoder] :
                      df \in EnrichTables, sku_decoder \in EnrichDecoders}
    /\ clean = NotCleaned
    /\ master = NotUploaded

CallEnrich ==
    /\ ~enrich.called
    /\ enrich' = [enrich EXCEPT
                     !.returned = enrich_dataframe_with_sku_info(enrich.df, enrich.sku_decoder),
                     !.called = TRUE]
    /\ UNCHANGED <<db, store, sess, last_save, failures, clean, master>>

NextEnrich == CallEnrich

SpecEnrich == InitEnrich /\ [][NextEnrich]_vars

(***************************************************************************)
(* SpecClean: one call of clean_financial_string                           *)
(***************************************************************************)
InitClean ==
    /\ db = "client"
    /\ store = EmptyStore
    /\ sess = [s \in Sessions |-> InitSession]
    /\ last_save = NoSave
    /\ failures = 0
    /\ enrich = NotCalled
    /\ clean \in {[NotCleaned EXCEPT !.s = s] : s \in CleanArguments}
    /\ master = NotUploaded

CallClean ==
    /\ ~clean.called
    /\ clean' = [clean EXCEPT !.returned = clean_financial_string(clean.s),
                              !.called = TRUE]
    /\ UNCHANGED <<db, store, sess, last_save, failures, enrich, master>>

NextClean == CallClean

SpecClean == InitClean /\ [][NextClean]_vars

(***************************************************************************)
(* SpecMaster: one upload of a SKU master file in a session that holds no  *)
(* decoder yet or the decoder of an earlier upload                         *)
(***************************************************************************)
InitMaster ==
    /\ db = "client"
    /\ store = EmptyStore
    /\ sess = [s \in Sessions |-> InitSession]
    /\ last_save = NoSave
    /\ failures = 0
    /\ enrich = NotCalled
    /\ clean = NotCleaned
    /\ master \in {[NotUploaded EXCEPT !.file = file, !.sku_decoder = sku_decoder,
                                       !.kept = sku_decoder] :
                      file \in MasterSheets, sku_decoder \in HeldDecoders}

UploadMaster ==
    /\ ~master.called
    /\ LET upload == MasterUpload(master.sku_decoder, master.file)
       IN  master' = [master EXCEPT !.returned = upload.temp_sku_decoder,
                                    !.kept = upload.sku_decoder,
                                    !.called = TRUE]
    /\ UNCHANGED <<db, store, sess, last_save, failures, enrich, clean>>

NextMaster == UploadMaster

SpecMaster == InitMaster /\ [][NextMaster]_vars

(***************************************************************************)
(* Properties                                                              *)
(***************************************************************************)
\* load_data_from_admin called on the store st by a session that has just
\* logged in, the store not raising: the session at the end of that run
FreshLoad(st) ==
    RunToEnd(StartScript(LoggedIn([ss |-> InitSession, st |-> st, ls |-> NoSave, fl |-> 0],
                                  READER_USER_ID), FALSE)).ss

\* the arguments of the latest save_data_for_admin call
SavedTable(k) == last_save.dataframes[k]

\* the data of the chunk documents 0 .. n-1 one after the other
RECURSIVE ConcatUpTo(_, _)
ConcatUpTo(chunks, n) ==
    IF n = 0 THEN <<>> ELSE ConcatUpTo(chunks, n - 1) \o chunks[n - 1].data

CeilDiv(R, C) == CHOOSE n \in 0..R : n * C >= R /\ (n - 1) * C < R

Count(df, r) == Cardinality({i \in 1..Len(df) : df[i] = r})
SameRows(a, b) ==
    /\ Len(a) = Len(b)
    /\ \A i \in 1..Len(a) : Count(a, a[i]) = Count(b, a[i])

\* table df with every timestamp written as ISO text and parsed back
ThroughIsoText(df) ==
    [i \in 1..Len(df) |->
        [col \in DOMAIN df[i] |->
            IF IsDatetimeInstance(df[i][col]) THEN to_datetime(isoformat(df[i][col]))
            ELSE df[i][col]]]

\* session s holds the result of a load that ran to its end after the latest
\* save, which completed: the load saw the marker that save wrote, and a
\* save since would have changed the marker or have aborted
LoadedAfterSave(s) ==
    /\ Idle(s)
    /\ last_save.status = "done"
    /\ sess[s].load_status = "ok"
    /\ sess[s].last_update_timestamp_str = MarkerOf(store)
    /\ MarkerOf(store) > 0

\* C1: after a completed save of a table, a following load returns its rows
\* in the order of the saved table, which is the chunk documents' data taken
\* in ascending numeric chunk index, whatever the number of chunks.
C1_LoadInChunkIndexOrder ==
    \A s \in Sessions : \A k \in KeyIx :
        LoadedAfterSave(s) =>
            /\ sess[s].loaded_dataframes[k] = ThroughIsoText(SavedTable(k))
            /\ ~df_empty(SavedTable(k)) =>
                 sess[s].loaded_dataframes[k] =
                    DataFrameFromRecords(Keys[k],
                        ConcatUpTo(store.chunks[k], Cardinality(DOMAIN store.chunks[k])))

\* C2: with one writer running save and one reader running load, their
\* document operations interleaved, no table the reader's load returns mixes
\* rows written by two different saves (each save's table carries one tag).
TagOf(row) == row["SKU"].v[1]
OfOneSave(df) == \A i, j \in 1..Len(df) : TagOf(df[i]) = TagOf(df[j])
C2_NoTornRead ==
    \A s \in Sessions : \A k \in KeyIx :
        sess[s].current_user_id = READER_USER_ID => OfOneSave(sess[s].loaded_dataframes[k])

\* C3: a load after a completed save, with no save in between, returns for
\* every table the same multiset of rows as the saved table, its timestamps
\* taken through ISO text and back.
C3_RoundTrip ==
    \A s \in Sessions : \A k \in KeyIx :
        LoadedAfterSave(s) =>
            SameRows(sess[s].loaded_dataframes[k], ThroughIsoText(SavedTable(k)))

C3_Witness ==
    \E s \in Sessions :
        /\ LoadedAfterSave(s)
        /\ Len(SavedTable(1)) > MAX_ROWS_PER_CHUNK
        /\ \E i \in 1..Len(SavedTable(1)) : SavedTable(1)[i]["Tanggal"] # NaT
        /\ sess[s].loaded_dataframes[1] = SavedTable(1)

\* C4: after a completed save of a table of R >= 1 rows with chunk size C the
\* manifest has num_chunks = ceil(R / C) and num_records = R, the chunk
\* documents are chunk_0 .. chunk_(num_chunks-1), chunk i holds the rows
\* [i*C, min((i+1)*C, R)) of the serialised table, between 1 and C of them,
\* and the chunks in index order give the serialised table.
C4_ChunkCount ==
    last_save.status = "done" =>
        \A k \in KeyIx :
            LET R == Len(SavedTable(k))
                C == MAX_ROWS_PER_CHUNK
                n == CeilDiv(R, C)
                records == records_to_save(SavedTable(k))
            IN  R >= 1 =>
                  /\ store.main[k] = [exists |-> TRUE, chunked |-> TRUE,
                                      num_chunks |-> n, num_records |-> R]
                  /\ DOMAIN store.chunks[k] = 0..(n - 1)
                  /\ \A i \in DOMAIN store.chunks[k] :
                        LET data == store.chunks[k][i].data
                            lo == i * C
                            hi == Min((i + 1) * C, R)
                        IN  /\ Len(data) = hi - lo
                            /\ Len(data) \in 1..C
                            /\ \A j \in 1..Len(data) : data[j] = records[lo + j]
                  /\ ConcatUpTo(store.chunks[k], n) = records

C4_Witness ==
    /\ last_save.status = "done"
    /\ Len(SavedTable(1)) = 2 * MAX_ROWS_PER_CHUNK + 1
    /\ Len(SavedTable(2)) = MAX_ROWS_PER_CHUNK
    /\ Cardinality(DOMAIN store.chunks[1]) = 3
    /\ Len(store.chunks[1][2].data) = 1

\* C5: a completed save of an empty table over a stored one leaves neither
\* manifest nor chunk documents of that table, and a load then returns the
\* empty table for it.
C5_Tombstone ==
    last_save.status = "done" =>
        \A k \in KeyIx :
            df_empty(SavedTable(k)) /\ last_save.before.main[k] =>
                /\ ~store.main[k].exists
                /\ DOMAIN store.chunks[k] = {}
                /\ FreshLoad(store).load_status = "ok"
                /\ FreshLoad(store).loaded_dataframes[k] = EmptyDF

C5_Witness ==
    /\ last_save.status = "done"
    /\ \E k \in KeyIx :
        /\ df_empty(SavedTable(k))
        /\ last_save.before.main[k] /\ last_save.before.chunks[k] > 0
        /\ ~store.main[k].exists

\* C6: a save that completes right after a completed save of the same tables
\* and decoder leaves the manifests, the chunk documents and the decoder
\* document as they were, and a load returns the same as before it.
C6_SaveIdempotent ==
    [][ ( /\ last_save.status = "done"
          /\ last_save'.status = "done"
          /\ last_save'.same_as_previous
          /\ last_save'.before.marker = MarkerOf(store)
          /\ MarkerOf(store') = MarkerOf(store) + 1 )
        => ( /\ store'.main = store.main
             /\ store'.chunks = store.chunks
             /\ store'.sku_decoder = store.sku_decoder
             /\ FreshLoad(store').loaded_dataframes = FreshLoad(store).loaded_dataframes
             /\ FreshLoad(store').loaded_sku_decoder = FreshLoad(store).loaded_sku_decoder )
      ]_vars

C6_Witness ==
    /\ last_save.status = "done"
    /\ last_save.same_as_previous
    /\ MarkerOf(store) = last_save.before.marker + 1
    /\ Len(SavedTable(1)) > MAX_ROWS_PER_CHUNK
    /\ store.main[1].exists

\* C7: after a completed save no chunk document of a table has an index
\* outside 0 .. num_chunks-1 of the table's manifest (none at all without a
\* manifest), and every stored chunk holds rows of the table just saved,
\* also when the save before it stored more chunks.
C7_NoOrphanChunks ==
    last_save.status = "done" =>
        \A k \in KeyIx :
            LET n == IF store.main[k].exists THEN store.main[k].num_chunks ELSE 0
                records == records_to_save(SavedTable(k))
            IN  /\ DOMAIN store.chunks[k] \subseteq 0..(n - 1)
                /\ (df_empty(SavedTable(k)) => DOMAIN store.chunks[k] = {})
                /\ \A i \in DOMAIN store.chunks[k] :
                      \A j \in 1..Len(store.chunks[k][i].data) :
                          \E r \in 1..Len(records) : store.chunks[k][i].data[j] = records[r]

C7_Witness ==
    /\ last_save.status = "done"
    /\ \E k \in KeyIx :
        /\ ~df_empty(SavedTable(k))
        /\ last_save.before.chunks[k] > Cardinality(DOMAIN store.chunks[k])
        /\ Cardinality(DOMAIN store.chunks[k]) = store.main[k].num_chunks

\* C8: a save that completes writes the last_update marker exactly once, and
\* by then the manifests and chunks of all tables and the decoder document
\* are written; a save that is skipped or that aborts on an error does not
\* write the marker.
StoredAsSaved ==
    /\ \A k \in KeyIx :
        IF df_empty(SavedTable(k)) THEN ~store.main[k].exists
        ELSE /\ store.main[k].exists
             /\ store.main[k].num_records = Len(SavedTable(k))
             /\ ConcatUpTo(store.chunks[k], Cardinality(DOMAIN store.chunks[k]))
                    = records_to_save(SavedTable(k))
    /\ store.sku_decoder = [exists |-> TRUE, decoder |-> last_save.sku_decoder]

C8_MarkerOncePerCompletedSave ==
    /\ last_save.marker_writes <= 1
    /\ last_save.status = "done" =>
          /\ last_save.marker_writes = 1
          /\ MarkerOf(store) = last_save.before.marker + 1
          /\ StoredAsSaved
    /\ last_save.status \in {"aborted", "skipped"} =>
          /\ last_save.marker_writes = 0
          /\ MarkerOf(store) = last_save.before.marker

C8_Witness ==
    /\ last_save.status = "aborted"
    /\ last_save.marker_writes = 0
    /\ store.sku_decoder = [exists |-> TRUE, decoder |-> last_save.sku_decoder]
    /\ ~df_empty(SavedTable(1)) /\ store.main[1].exists
    /\ last_save.before.marker = 1 /\ MarkerOf(store) = 1

\* C9: a reader session that holds tables loaded from the store and whose
\* script reran after a marker newer than the one it last saw was written
\* holds the tables now stored.
C9_ReaderReloads ==
    \A s \in Sessions :
        ( /\ Idle(s) /\ ~sess[s].uncaught
          /\ sess[s].current_user_id = READER_USER_ID
          /\ ~df_empty(sess[s].df[1])
          /\ sess[s].last_run_marker = MarkerOf(store)
          /\ sess[s].last_run_marker > sess[s].last_update_timestamp_str )
        => sess[s].df = FreshLoad(store).loaded_dataframes

\* C10: with a store client, an error raised by the store at a document
\* operation of a load does not leave the script; the load returns all three
\* tables, the table being read and those not yet read empty, and the
\* decoder empty.
C10_LoadFailureContained ==
    \A s \in Sessions :
        /\ db = "client" => ~sess[s].uncaught
        /\ sess[s].load_status = "failed" =>
              /\ DOMAIN sess[s].loaded_dataframes = KeyIx
              /\ \A k \in KeyIx :
                    k >= sess[s].load_failed_at => sess[s].loaded_dataframes[k] = EmptyDF
              /\ sess[s].loaded_sku_decoder = EmptyDecoder

C10_Witness ==
    \E s \in Sessions :
        /\ sess[s].load_status = "failed"
        /\ sess[s].load_failed_at = 2
        /\ ~df_empty(sess[s].loaded_dataframes[1])
        /\ store.main[2].exists /\ store.main[3].exists
        /\ store.sku_decoder.exists /\ Truthy(store.sku_decoder.decoder)
        /\ ~sess[s].uncaught

StoredAsPassed(j) ==
    IF df_empty(SavedTable(j)) THEN ~store.main[j].exists /\ DOMAIN store.chunks[j] = {}
    ELSE /\ store.main[j].exists
         /\ store.main[j].num_records = Len(SavedTable(j))
         /\ DOMAIN store.chunks[j] = 0..(store.main[j].num_chunks - 1)
         /\ ConcatUpTo(store.chunks[j], store.main[j].num_chunks)
                = records_to_save(SavedTable(j))

C12_TablesSavedIndependently ==
    \A k \in KeyIx :
        ( /\ last_save.status = "aborted"
          /\ last_save.stopped.key = k )
        => \A j \in KeyIx \ {k} : StoredAsPassed(j)

\* C13: a load of a store in which a table has no manifest document (the
\* store not raising) ends normally, returns the empty table for that table,
\* the stored rows of every table that has its manifest and chunk documents,
\* and the stored decoder; so did the load the session has just run.
C13_NoManifestIsNoData ==
    \A s \in Sessions :
        ( /\ Idle(s) /\ db = "client"
          /\ sess[s].load_status # "none"
          /\ \E k \in KeyIx : ~store.main[k].exists )
        => LET r == FreshLoad(store)
           IN  /\ r.load_status = "ok" /\ ~r.uncaught
               /\ \A k \in KeyIx :
                    IF ~store.main[k].exists THEN r.loaded_dataframes[k] = EmptyDF
                    ELSE LET n == Cardinality(DOMAIN store.chunks[k])
                         IN  (n > 0 /\ DOMAIN store.chunks[k] = 0..(n - 1)) =>
                                r.loaded_dataframes[k] =
                                    DataFrameFromRecords(Keys[k],
                                                         ConcatUpTo(store.chunks[k], n))
               /\ store.sku_decoder.exists =>
                    r.loaded_sku_decoder = store.sku_decoder.decoder
               /\ sess[s].load_failed_at = 0 =>
                    /\ sess[s].load_status = "ok"
                    /\ sess[s].loaded_dataframes = r.loaded_dataframes
                    /\ sess[s].loaded_sku_decoder = r.loaded_sku_decoder

C13_Witness ==
    \E s \in Sessions :
        /\ Idle(s) /\ sess[s].load_status = "ok"
        /\ last_save.status = "aborted"
        /\ ~store.main[2].exists
        /\ store.main[1].exists /\ ~df_empty(sess[s].loaded_dataframes[1])
        /\ store.main[3].exists /\ ~df_empty(sess[s].loaded_dataframes[3])
        /\ sess[s].loaded_dataframes[2] = EmptyDF
        /\ Truthy(sess[s].loaded_sku_decoder)

(***************************************************************************)
(* Properties of enrich_dataframe_with_sku_info, on the call SpecEnrich    *)
(* makes.  Row i of the returned table is compared with row i of the       *)
(* table passed.                                                           *)
(***************************************************************************)
HasSku == ~df_empty(enrich.df) /\ "SKU" \in Columns(enrich.df)

\* the rows of a call that went through the main branch
SkuRows == IF enrich.called /\ HasSku THEN 1..Len(enrich.df) ELSE {}

SkuUpper(i) == upper(astype_str(enrich.df[i]["SKU"]))
Parts(i) == extract(SkuUpper(i))
Matches(i) == Parts(i) # NoParts
InBucket(code, bucket) == Join(code) \in DOMAIN get(enrich.sku_decoder, bucket)
Meaning(code, bucket) == Text(get(enrich.sku_decoder, bucket)[Join(code)])

\* C14: a row whose SKU matches the pattern with a year/defect segment D
\* followed by a digit d, under a decoder that has no entry for that segment
\* (neither in the DEFFECT bucket nor in the TAHUN PRODUKSI bucket), gets the
\* defect flag true and the production year the text of 2020 + d.
C14_DefectYearFallback ==
    \A i \in SkuRows :
        ( /\ Matches(i) /\ startswith_D(Parts(i).year)
          /\ ~InBucket(Parts(i).year, "DEFFECT")
          /\ ~InBucket(Parts(i).year, "TAHUN PRODUKSI") )
        => /\ enrich.returned[i]["Is Deffect"] = Bool(TRUE)
           /\ enrich.returned[i]["Tahun Produksi"] = DeffectYear(Parts(i).year)

\* C15: a row whose SKU matches the pattern with a year/defect segment that
\* starts with D, under a decoder whose DEFFECT bucket has an entry for the
\* segment, gets that DEFFECT-bucket meaning as its production year.
C15_DefectYearFromDefectBucket ==
    \A i \in SkuRows :
        ( /\ Matches(i) /\ startswith_D(Parts(i).year)
          /\ InBucket(Parts(i).year, "DEFFECT") )
        => enrich.returned[i]["Tahun Produksi"] = Meaning(Parts(i).year, "DEFFECT")

\* the 'Unknown' text the main branch falls back to for each of the seven
\* text columns
Sentinel(col) ==
    CASE col = "Size Produk" -> Text("Unknown Ukuran")
      [] col = "Category" -> Text("Unknown Category")
      [] col = "Sub Category" -> Text("Unknown Sub Category")
      [] OTHER -> Text(UnknownOf(col))

TextCols == default_sku_info_cols \ {"Is Deffect"}

\* C16: every row of a table that has no SKU column, and every row whose SKU
\* is the empty string, gets each of the seven text enrichment columns at an
\* 'Unknown' text of that column and the defect flag the boolean false.
C16_NoSkuAllUnknown ==
    enrich.called =>
        \A i \in 1..Len(enrich.df) :
            ( \/ "SKU" \notin DOMAIN enrich.df[i]
              \/ enrich.df[i]["SKU"] = Str(<<>>) )
            => /\ \A col \in TextCols :
                    enrich.returned[i][col] \in {Sentinel(col), Text(UnknownOf(col))}
               /\ enrich.returned[i]["Is Deffect"] = Bool(FALSE)

LookedUp(code, bucket, fallback) ==
    IF InBucket(code, bucket) THEN Meaning(code, bucket) ELSE fallback

\* C20: for every row with a SKU s, taken in upper case, the size is the
\* UKURAN meaning of the last 2 characters of s, the category the CATEGORY
\* meaning of the first 3 characters and the sub-category the SUB_CATEGORY
\* meaning of the first 4 characters, each with its own 'Unknown' text when
\* the bucket does not have the code.
C20_SliceLookups ==
    \A i \in SkuRows :
        LET s == SkuUpper(i)
            n == Len(s)
        IN  /\ enrich.returned[i]["Size Produk"] =
                   LookedUp(SubSeq(s, IF n > 2 THEN n - 1 ELSE 1, n), "UKURAN",
                            Text("Unknown Ukuran"))
            /\ enrich.returned[i]["Category"] =
                   LookedUp(SubSeq(s, 1, IF n > 3 THEN 3 ELSE n), "CATEGORY",
                            Text("Unknown Category"))
            /\ enrich.returned[i]["Sub Category"] =
                   LookedUp(SubSeq(s, 1, IF n > 4 THEN 4 ELSE n), "SUB_CATEGORY",
                            Text("Unknown Sub Category"))

\* the call on ZOZA21BAS-MIA-TBW35, and on its lower-case spelling, under a
\* decoder with UKURAN {35: L} and CATEGORY {ZOZ: Kids}
C20_Witness ==
    /\ enrich.called /\ HasSku
    /\ SkuUpper(1) = ExampleSku
    /\ enrich.df[1]["SKU"] # Str(ExampleSku)
    /\ get(enrich.sku_decoder, "UKURAN") = ("35" :> "L")
    /\ get(enrich.sku_decoder, "CATEGORY") = ("ZOZ" :> "Kids")
    /\ enrich.returned[1]["Size Produk"] = Text("L")
    /\ enrich.returned[1]["Category"] = Text("Kids")
    /\ enrich.returned[1]["Sub Category"] = Text("Kids A")

(***************************************************************************)
(* Properties of clean_financial_string, on the call SpecClean makes       *)
(***************************************************************************)
IsTextArgument == clean.s.t = "str"

\* the argument without its leading and trailing spaces, the currency marker
\* and the spaces inside
Unmarked == remove(replace_Rp(strip(clean.s.v)), " ")

IsSeparator(ch) == ch = "." \/ ch = ","

\* the amounts written with at least one thousands separator and with
\* decimals, each with the number it stands for
WrittenAmounts ==
    {<<Amount(prefix, lead, thousands, decimals, seps[1], seps[2]),
       Normalised((IF prefix = <<"-">> THEN 0 - 1 ELSE 1)
                      * DigitsValue(lead \o thousands \o decimals),
                  0 - Len(decimals))>> :
        prefix \in AmountPrefixes, lead \in LeadingGroups,
        thousands \in ThousandGroups \ {<<>>}, decimals \in DecimalDigitsOf \ {<<>>},
        seps \in {<<".", ",">>, <<",", ".">>}}

\* C21: for a text that is made of digits, dots and commas once the currency
\* marker and the spaces are removed: if its last separator is a comma, the
\* result is the number read with all dots removed and the commas as decimal
\* points; otherwise it is the number read with all commas removed.  An
\* amount with thousands dots and a decimal comma and the amount of the same
\* digits with thousands commas and a decimal dot both give the number the
\* digits stand for.
C21_CommaOrDotDecimal ==
    (clean.called /\ IsTextArgument) =>
        LET s == Unmarked
            last_is_comma ==
                \E i \in 1..Len(s) :
                    s[i] = "," /\ \A j \in (i + 1)..Len(s) : ~IsSeparator(s[j])
            expected ==
                IF last_is_comma
                THEN [i \in 1..Len(SelectSeq(s, LAMBDA ch : ch # ".")) |->
                         IF SelectSeq(s, LAMBDA ch : ch # ".")[i] = "," THEN "."
                         ELSE SelectSeq(s, LAMBDA ch : ch # ".")[i]]
                ELSE SelectSeq(s, LAMBDA ch : ch # ",")
        IN  /\ (\A i \in 1..Len(s) : IsDigitChar(s[i]) \/ IsSeparator(s[i])) =>
                clean.returned = (IF IsFloatLiteral(expected) THEN float(expected) ELSE Zero)
            /\ \A written \in WrittenAmounts :
                clean.s.v = written[1] => clean.returned = written[2]

\* the call on Rp 1.234.567,89: the result is 1234567.89
C21_Witness ==
    /\ clean.called
    /\ clean.s = Str(<<"R", "p", " ", "1", ".", "2", "3", "4", ".", "5", "6", "7", ",", "8", "9">>)
    /\ clean.returned = Normalised(123456789, 0 - 2)
    /\ clean.returned =
           clean_financial_string(
               Str(<<"1", ",", "2", "3", "4", ",", "5", "6", "7", ".", "8", "9">>))

\* the text is a number written in decimal digits: after an optional minus
\* sign, one or more digits with at most one dot before, between or after
\* them
IsDecimalText(chars) ==
    \E from \in 1..2 :
        /\ from = 2 => (chars # <<>> /\ chars[1] = "-")
        /\ \E i \in from..Len(chars) : IsDigitChar(chars[i])
        /\ \A i \in from..Len(chars) :
            \/ IsDigitChar(chars[i])
            \/ chars[i] = "." /\ \A j \in from..Len(chars) : chars[j] = "." => j = i

MasterDf == clean_columns(master.file)
HasAllColumns ==
    LET df == MasterDf
    IN  \A c \in {"CODE", "ARTI", "JENIS"} : \E j \in DOMAIN df.columns : df.columns[j] = c
\* what a row says: its code in upper case, its ARTI, both without the
\* spaces around them, its JENIS as written and its JENIS in upper case
\* without any space
RECURSIVE FactsOf(_, _)
FactsOf(df, n) ==
    IF n = 0 THEN <<>>
    ELSE LET jenis == astype_str(row_get(df, df.rows[n], "JENIS"))
         IN  Append(FactsOf(df, n - 1),
                    [code |-> code_of(df, df.rows[n]),
                     arti |-> arti_of(df, df.rows[n]),
                     jenis |-> Join(jenis),
                     spelled |-> Join(SelectSeq(upper(strip(jenis)), LAMBDA ch : ch # " "))])
MasterFacts == FactsOf(MasterDf, Len(master.file.rows))
\* the aliases by their spelling in upper case without spaces
AliasSpellings ==
    [spelling \in {"CATEGORY", "SUBCATEGORY", "SUB_CATEGORY", "SEASON", "WARNA", "UKURAN",
                   "TAHUNPRODUKSI", "TAHUNLAUNCHING", "TAHUN", "SINGKATANDARINAMAPRODUK",
                   "NAMAPRODUK", "DEFFECT"} |->
        CASE spelling \in {"SUBCATEGORY", "SUB_CATEGORY"} -> "SUB_CATEGORY"
          [] spelling \in {"TAHUNPRODUKSI", "TAHUNLAUNCHING", "TAHUN"} -> "TAHUN PRODUKSI"
          [] spelling \in {"SINGKATANDARINAMAPRODUK", "NAMAPRODUK"} -> "SINGKATAN_NAMA_PRODUK"
          [] OTHER -> spelling]
Recognised(fact) == fact.spelled \in DOMAIN AliasSpellings
\* the rows that carry the code under a JENIS of the category
Writers(facts, category, code) ==
    {i \in DOMAIN facts : /\ facts[i].code = code
                          /\ Recognised(facts[i])
                          /\ AliasSpellings[facts[i].spelled] = category}
LastOf(rows) == CHOOSE i \in rows : \A j \in rows : j <= i

\* C23: in the decoder load_sku_master returns, the entry of a category and
\* an upper-cased code is the ARTI (without surrounding spaces) of the last
\* row that carries that code under a JENIS of that category; a code no
\* such row carries has no entry, so rows of other codes or categories and
\* rows of unrecognised JENIS change nothing in it
C23_LastWriteWins ==
    (master.called /\ HasAllColumns) =>
        LET facts == MasterFacts
        IN  /\ \A i \in DOMAIN facts :
                   (facts[i].code # "" /\ Recognised(facts[i])) =>
                       LET category == AliasSpellings[facts[i].spelled]
                           code == facts[i].code
                       IN  /\ category \in DOMAIN master.returned
                           /\ code \in DOMAIN master.returned[category]
                           /\ master.returned[category][code]
                                  = facts[LastOf(Writers(facts, category, code))].arti
            /\ \A category \in DOMAIN master.returned :
                   \A code \in DOMAIN master.returned[category] :
                       code # "" /\ Writers(facts, category, code) # {}

\* a code written twice under one category with different meanings, a row of
\* another category in between
C23_Witness ==
    /\ master.called /\ HasAllColumns
    /\ LET facts == MasterFacts
       IN  \E i, j, k \in DOMAIN facts, category \in DOMAIN master.returned :
              /\ i < j /\ j < k
              /\ {i, k} \subseteq Writers(facts, category, facts[i].code)
              /\ j \notin Writers(facts, category, facts[i].code)
              /\ facts[i].arti # facts[k].arti
              /\ master.returned[category][facts[i].code] = facts[k].arti

\* the rows of recognised JENIS among the first n rows, in their order
RECURSIVE RecognisedRows(_, _, _)
RecognisedRows(rows, facts, n) ==
    IF n = 0 THEN <<>>
    ELSE IF Recognised(facts[n]) THEN Append(RecognisedRows(rows, facts, n - 1), rows[n])
    ELSE RecognisedRows(rows, facts, n - 1)

\* C24: the JENIS of a row is matched in upper case with all spaces removed:
\* a row with a code whose JENIS is, read that way, a spelling of an alias
\* has its code in the alias's canonical bucket, so all the spellings of one
\* alias store into the same bucket; the rows whose JENIS is no spelling of
\* any alias leave the load as it is without them
C24_JenisAliases ==
    (master.called /\ HasAllColumns) =>
        LET facts == MasterFacts
        IN  /\ \A i \in DOMAIN facts :
                   (facts[i].code # "" /\ Recognised(facts[i])) =>
                       /\ AliasSpellings[facts[i].spelled] \in DOMAIN master.returned
                       /\ facts[i].code
                              \in DOMAIN master.returned[AliasSpellings[facts[i].spelled]]
            /\ master.returned
                   = load_sku_master([master.file EXCEPT
                         !.rows = RecognisedRows(master.file.rows, facts, Len(facts))])

\* an unrecognised row first, then two rows of one alias and one code in two
\* spellings, the later one in lower case or with spaces and stored in the
\* alias's bucket
C24_Witness ==
    /\ master.called /\ HasAllColumns
    /\ LET facts == MasterFacts
       IN  \E i, j, k \in DOMAIN facts :
              /\ i < j /\ j < k
              /\ ~Recognised(facts[i]) /\ facts[i].code # ""
              /\ Recognised(facts[j]) /\ Recognised(facts[k])
              /\ facts[j].spelled # facts[k].spelled
              /\ AliasSpellings[facts[j].spelled] = AliasSpellings[facts[k].spelled]
              /\ facts[k].jenis # facts[k].spelled
              /\ facts[j].code = facts[k].code
              /\ master.returned[AliasSpellings[facts[j].spelled]][facts[j].code]
                     = facts[k].arti

\* C25: when the sheet lacks any of the columns CODE, ARTI, JENIS,
\* load_sku_master returns the empty decoder, which has no bucket at all,
\* whatever the rows hold, and the session keeps the decoder it held
C25_MissingColumnEmptyDecoder ==
    (master.called /\ ~HasAllColumns) =>
        /\ master.returned = EmptyDecoder
        /\ DOMAIN master.returned = {}
        /\ master.kept = master.sku_decoder

\* a sheet without its ARTI column whose rows would otherwise load, uploaded
\* in a session that holds a decoder
C25_Witness ==
    /\ master.called /\ ~HasAllColumns
    /\ \E j \in DOMAIN MasterDf.columns : MasterDf.columns[j] = "CODE"
    /\ \E i \in DOMAIN MasterFacts : MasterFacts[i].code # "" /\ Recognised(MasterFacts[i])
    /\ master.sku_decoder # EmptyDecoder
    /\ master.kept = master.sku_decoder
    /\ master.returned = EmptyDecoder

(***************************************************************************)
(* SpecEnrichCarried: one call of enrich_dataframe_with_sku_info on a      *)
(* table that already carries Season, Singkatan Nama Produk and Warna      *)
(* Produk columns, as a table enriched before or an uploaded file with     *)
(* these columns does.  Each carried cell is a text of its own, the        *)
(* column's 'Unknown' text, or missing.                                    *)
(***************************************************************************)
CarriedCols == {"Season", "Singkatan Nama Produk", "Warna Produk"}
CarriedCells(col) == {Text("carried " \o col), Text(UnknownOf(col)), NaN}
CarriedSkus == {ExampleSku, DeffectSku, <<"Z", "O">>}
CarriedRow(sku, carried) == SkuRow(Str(sku)) @@ carried
CarriedTables ==
    {<<CarriedRow(sku, carried)>> :
        sku \in CarriedSkus,
        carried \in {c \in [CarriedCols -> UNION {CarriedCells(col) : col \in CarriedCols}] :
                        \A col \in CarriedCols : c[col] \in CarriedCells(col)}}

InitEnrichCarried ==
    /\ db = "client"
    /\ store = EmptyStore
    /\ sess = [s \in Sessions |-> InitSession]
    /\ last_save = NoSave
    /\ failures = 0
    /\ enrich \in {[NotCalled EXCEPT !.df = df, !.sku_decoder = sku_decoder] :
                      df \in CarriedTables, sku_decoder \in EnrichDecoders}
    /\ clean = NotCleaned
    /\ master = NotUploaded

SpecEnrichCarried == InitEnrichCarried /\ [][NextEnrich]_vars

\* C26: for every row whose SKU matches the pattern, in a table that may
\* already carry the columns, each of Season, Singkatan Nama Produk and
\* Warna Produk is the decoder meaning of its matched code when the bucket
\* has the code and the column's own 'Unknown' text when it has not, so the
\* three values are determined by the SKU and the decoder alone.
C26_MatchedFieldsFromSkuAndDecoder ==
    \A i \in SkuRows :
        Matches(i) =>
            /\ enrich.returned[i]["Season"]
                   = LookedUp(Parts(i).season, "SEASON", Sentinel("Season"))
            /\ enrich.returned[i]["Singkatan Nama Produk"]
                   = LookedUp(Parts(i).name, "SINGKATAN_NAMA_PRODUK",
                              Sentinel("Singkatan Nama Produk"))
            /\ enrich.returned[i]["Warna Produk"]
                   = LookedUp(Parts(i).color, "WARNA", Sentinel("Warna Produk"))

\* what the branch for a table without a SKU column assigns to a column
NoSkuValue(col) ==
    enrich_dataframe_with_sku_info(<<NoSkuRow("item")>>, enrich.sku_decoder)[1][col]

\* C30: each of the seven text enrichment columns has one 'Unknown' value:
\* what a row with a SKU gets in a column when the column's code is not in
\* the decoder, or the SKU does not match the pattern, is what a row of a
\* table without a SKU column gets in that column.
C30_OneUnknownPerField ==
    \A i \in SkuRows :
        LET s == SkuUpper(i)
            unknown(code, bucket) == ~Matches(i) \/ ~InBucket(code, bucket)
        IN  /\ ~InBucket(LastChars(s, 2), "UKURAN")
                => enrich.returned[i]["Size Produk"] = NoSkuValue("Size Produk")
            /\ ~InBucket(FirstChars(s, 3), "CATEGORY")
                => enrich.returned[i]["Category"] = NoSkuValue("Category")
            /\ ~InBucket(FirstChars(s, 4), "SUB_CATEGORY")
                => enrich.returned[i]["Sub Category"] = NoSkuValue("Sub Category")
            /\ ( /\ unknown(Parts(i).year, "TAHUN PRODUKSI")
                 /\ unknown(Parts(i).year, "DEFFECT") )
                => enrich.returned[i]["Tahun Produksi"] = NoSkuValue("Tahun Produksi")
            /\ unknown(Parts(i).season, "SEASON")
                => enrich.returned[i]["Season"] = NoSkuValue("Season")
            /\ unknown(Parts(i).name, "SINGKATAN_NAMA_PRODUK")
                => enrich.returned[i]["Singkatan Nama Produk"]
                       = NoSkuValue("Singkatan Nama Produk")
            /\ unknown(Parts(i).color, "WARNA")
                => enrich.returned[i]["Warna Produk"] = NoSkuValue("Warna Produk")

(***************************************************************************)
(* Properties of the store between script runs (Spec)                      *)
(***************************************************************************)
\* the rows in all the stored chunk documents of table k
StoredRows(k) ==
    LET RECURSIVE Total(_)
        Total(ids) ==
            IF ids = {} THEN 0
            ELSE LET i == CHOOSE i \in ids : TRUE
                 IN  Len(store.chunks[k][i].data) + Total(ids \ {i})
    IN  Total(DOMAIN store.chunks[k])

\* C27: whenever no save is in progress (none started, the last one completed
\* or aborted on a store failure at any step), a table with a manifest has
\* exactly num_chunks chunk documents whose rows total num_records, and a
\* table without a manifest has no chunk documents.
C27_ManifestMatchesChunks ==
    (\A s \in Sessions : Idle(s)) =>
        \A k \in KeyIx :
            IF store.main[k].exists
            THEN /\ Cardinality(DOMAIN store.chunks[k]) = store.main[k].num_chunks
                 /\ StoredRows(k) = store.main[k].num_records
            ELSE DOMAIN store.chunks[k] = {}

\* C28: whenever a script run with a save call, completed or aborted on a
\* store failure, changes what a load returns for a table or for the
\* decoder, the last_update marker after it differs from the marker before.
C28_MarkerTracksVisibleChange ==
    [][ ( \/ FreshLoad(store').loaded_dataframes # FreshLoad(store).loaded_dataframes
          \/ FreshLoad(store').loaded_sku_decoder # FreshLoad(store).loaded_sku_decoder )
        => MarkerOf(store') # MarkerOf(store)
      ]_vars

(***************************************************************************)
(* SpecAdmins: two sessions logged in with the admin id, each uploading a  *)
(* sales file of its own and saving it; the document operations of the two *)
(* saves interleave                                                        *)
(***************************************************************************)
OwnFiles(s) ==
    IF s = 1 THEN <<[tag |-> Ch.A, n |-> MAX_ROWS_PER_CHUNK + 1], NoFile, NoFile>>
    ELSE SalesOnlyFiles
OwnTable(s) == load_data(OwnFiles(s)[1], 1, GoodDecoder)

\* the save button clicked in a session that holds the sales table it
\* uploaded, while no save has completed yet
SaveOwn(s) ==
    /\ sess[s].df[1] = OwnTable(s)
    /\ ~store.last_update.exists
    /\ ClickSave(s, "steps")

NextAdmins ==
    \/ \E s \in Sessions : Login(s, ADMIN_USER_ID, "whole")
    \/ \E s \in Sessions : Upload(s, "good", OwnFiles(s), "whole")
    \/ \E s \in Sessions : SaveOwn(s)
    \/ \E s \in Sessions : StepScript(s)

SpecAdmins == Init /\ [][NextAdmins]_vars

\* the sales table is stored as the save of table df writes it
StoredAsSaveOf(df) ==
    LET n == CeilDiv(Len(df), MAX_ROWS_PER_CHUNK)
    IN  /\ store.main[1] = [exists |-> TRUE, chunked |-> TRUE,
                            num_chunks |-> n, num_records |-> Len(df)]
        /\ DOMAIN store.chunks[1] = 0..(n - 1)
        /\ ConcatUpTo(store.chunks[1], n) = records_to_save(df)

\* C29: two admin sessions save the sales table at the same time; once no
\* save is running any more, the stored manifest and chunk documents of the
\* sales table are those of exactly one of the two saves: the manifest's
\* num_chunks and num_records match the stored chunks and all the stored
\* chunks come from the same save.
C29_OneSaveWins ==
    ( /\ \A s \in Sessions : Idle(s)
      /\ store.main[1].exists \/ DOMAIN store.chunks[1] # {} )
    => \E s \in Sessions : StoredAsSaveOf(OwnTable(s))

====
